---- MODULE Spec2Model ----
(***************************************************************************)
(* Wireless-debugging device manager: the mDNS service registry            *)
(* (MDnsContext), the listener that feeds it (MDnsListener), the discovery *)
(* queries built on it (AdbConnectionDiscovery, ConnectionManager) and the *)
(* multi-device connection layer (DeviceConnection).                       *)
(*                                                                         *)
(* Two threads run: the zeroconf callback thread (the listener) and the    *)
(* application's calling thread (the foreground).  ServiceInfo objects     *)
(* are shared by reference in the program; the model keeps their values    *)
(* and, for every reference the foreground holds, whether it is the very   *)
(* object the registry's online mapping holds (field "aliased").           *)
(***************************************************************************)
EXTENDS Integers, Sequences, FiniteSets, TLC

(***************************************************************************)
(* Bounds of the model.                                                    *)
(***************************************************************************)
\* Nested forced validate_connection calls the model follows.
MaxDepth == 2

(***************************************************************************)
(* Program constants.                                                      *)
(***************************************************************************)
DEFAULT_FIXED_PORT == 5555

CONNECT_SERVICE_TYPE == "_adb-tls-connect._tcp.local."

\* The default serial pattern adb\-(\w+)\-\w+\\? as the token shapes it accepts.
DEFAULT_REGEX_FILTER == [prefix |-> "adb", sep |-> "-"]

ConnectionInfoStatus == {"UPDATED", "CHANGED", "DOWN", "UNKNOWN"}

(***************************************************************************)
(* The values the environment supplies.                                    *)
(***************************************************************************)
Serials == {"A1", "B2"}

\* Raw 4-byte addresses as the mDNS record carries them.
AddressBytes == {<<10, 0, 0, 5>>, <<10, 0, 0, 6>>}

Ports == {DEFAULT_FIXED_PORT, 40000}

\* Python's None, where a string is expected.
None == "None"

\* socket.inet_ntoa: four bytes to dotted decimal.
inet_ntoa(b) ==
    ToString(b[1]) \o "." \o ToString(b[2]) \o "." \o ToString(b[3]) \o "." \o ToString(b[4])

IPs == {inet_ntoa(b) : b \in AddressBytes}

\* Words matched by \w+ in the names the model's network advertises.
Words == Serials \cup {"tls", "printer"}

\* A service name as its tokens: "adb-A1-tls._adb-tls-connect._tcp.local.".
AdbName(serial) == <<"adb", "-", serial, "-", "tls", ".", CONNECT_SERVICE_TYPE>>

ForeignName == <<"printer", ".", CONNECT_SERVICE_TYPE>>

\* What zc.get_service_info(type_, name) hands the listener: a zeroconf
\* ServiceInfo (name, addresses, port) or None.
ZeroconfServiceInfo(name, addresses, port) ==
    [name |-> name, addresses |-> addresses, port |-> port]

\* device_manager ServiceInfo(serial_number, ip, port).
ServiceInfo(serial_number, ip, port) ==
    [serial_number |-> serial_number, ip |-> ip, port |-> port]

\* None, where a zeroconf ServiceInfo / a ServiceInfo is expected.
NoZeroconfInfo == [name |-> <<>>, addresses |-> <<>>, port |-> 0]

NoInfo == ServiceInfo(None, None, 0)

VARIABLES
    online,     \* MDnsContext.__services_info_online : serial -> ServiceInfo
    offline,    \* MDnsContext.__services_info_offline: serial -> ServiceInfo
    mutex,      \* MDnsContext.__mutex: TRUE while the listener thread holds it
    lst,        \* the listener thread: the registry call it is executing
    stack,      \* the foreground thread: its call stack, innermost frame last
    ret,        \* the value the last foreground call returned to its caller
    done,       \* the last top-level foreground call that ended, and how
    snap,       \* the mapping a registry getter handed to the application
    managed,    \* DeviceConnection.connection_info, an ObjectManager
    devices,    \* the adb server's device table: address -> state
    log,        \* the adb commands issued since the top-level call began
    discovery,  \* AdbConnectionDiscovery: its browser and resolver
    pairing,    \* the AdbPairing instance and the device_pairing call using it
    check,      \* the run of check_adb_dependencies_version
    store,      \* an ObjectManager the application fills with its own objects
    actions     \* the DeviceActions instance of a managed device

vars ==
    <<online, offline, mutex, lst, stack, ret, done, snap, managed, devices, log,
      discovery, pairing, check, store, actions>>

\* The registry and the listener thread.
lvars == <<online, offline, mutex, lst>>

\* The foreground thread's control state.
fvars == <<stack, ret, done>>

\* The connection layer's state and the adb server.
cvars == <<managed, devices, log>>

\* The discovery's lifecycle, the pairing session and the dependency check.
avars == <<discovery, pairing, check, store, actions>>

(***************************************************************************)
(* Dictionaries.                                                           *)
(***************************************************************************)
EmptyDict == [k \in {} |-> NoInfo]

DictPop(d, key) == [k \in DOMAIN d \ {key} |-> d[k]]

DictSet(d, key, val) == [k \in DOMAIN d \cup {key} |-> IF k = key THEN val ELSE d[k]]

Registry == [online |-> online, offline |-> offline]

(***************************************************************************)
(* MDnsContext: the three mutators, statement by statement.  Each runs     *)
(* under the mutex: first the conditional pop from the other mapping, then *)
(* the store into its own.                                                 *)
(***************************************************************************)
\* Variant: add that leaves the offline mapping alone.
add_service_pop_Keep(reg, key_data) == reg

add_service_pop(reg, key_data) ==
    IF key_data \in DOMAIN reg.offline
    THEN [reg EXCEPT !.offline = DictPop(reg.offline, key_data)]
    ELSE reg

\* Variant: add that keeps the record the online mapping already holds.
add_service_set_IfAbsent(reg, key_data, data) ==
    IF key_data \in DOMAIN reg.online
    THEN reg
    ELSE [reg EXCEPT !.online = DictSet(reg.online, key_data, data)]

add_service_set(reg, key_data, data) ==
    [reg EXCEPT !.online = DictSet(reg.online, key_data, data)]

\* Variant: update that does not promote a serial out of the offline mapping.
update_service_pop_Keep(reg, key_data) == reg

update_service_pop(reg, key_data) ==
    IF key_data \in DOMAIN reg.offline
    THEN [reg EXCEPT !.offline = DictPop(reg.offline, key_data)]
    ELSE reg

\* Variant: update that rebuilds the online mapping around its own serial.
update_service_set_Alone(reg, key_data, data) ==
    [reg EXCEPT !.online = DictSet(EmptyDict, key_data, data)]

update_service_set(reg, key_data, data) ==
    [reg EXCEPT !.online = DictSet(reg.online, key_data, data)]

\* Variant: moveOffline that leaves the online mapping alone.
to_offline_service_pop_Keep(reg, key_data) == reg

to_offline_service_pop(reg, key_data) ==
    IF key_data \in DOMAIN reg.online
    THEN [reg EXCEPT !.online = DictPop(reg.online, key_data)]
    ELSE reg

\* Variant: moveOffline that forgets a serial reported offline again.
to_offline_service_set_Forget(reg, key_data, data) ==
    IF key_data \in DOMAIN reg.offline
    THEN [reg EXCEPT !.offline = DictPop(reg.offline, key_data)]
    ELSE [reg EXCEPT !.offline = DictSet(reg.offline, key_data, data)]

to_offline_service_set(reg, key_data, data) ==
    [reg EXCEPT !.offline = DictSet(reg.offline, key_data, data)]

\* The whole body of each mutator.
add_service(reg, key_data, data) ==
    add_service_set(add_service_pop(reg, key_data), key_data, data)

update_service(reg, key_data, data) ==
    update_service_set(update_service_pop(reg, key_data), key_data, data)

to_offline_service(reg, key_data, data) ==
    to_offline_service_set(to_offline_service_pop(reg, key_data), key_data, data)

PopOf(op, reg, key_data) ==
    CASE op = "add_service" -> add_service_pop(reg, key_data)
      [] op = "update_service" -> update_service_pop(reg, key_data)
      [] op = "to_offline_service" -> to_offline_service_pop(reg, key_data)

SetOf(op, reg, key_data, data) ==
    CASE op = "add_service" -> add_service_set(reg, key_data, data)
      [] op = "update_service" -> update_service_set(reg, key_data, data)
      [] op = "to_offline_service" -> to_offline_service_set(reg, key_data, data)

CallOf(op, reg, key_data, data) ==
    CASE op = "add_service" -> add_service(reg, key_data, data)
      [] op = "update_service" -> update_service(reg, key_data, data)
      [] op = "to_offline_service" -> to_offline_service(reg, key_data, data)

(***************************************************************************)
(* MDnsListener._extract_info.                                             *)
(***************************************************************************)
\* Variant: a pattern that takes the first word of any name as the serial.
ReMatch_FirstWord(re_filter, type_filter, name) == name[1]

\* re.match(rf"{re_filter}.{type_filter}", name): group 1, or None.
ReMatch(re_filter, type_filter, name) ==
    LET plain == Len(name) = 7 /\ name[6] \in {".", "-"} /\ name[7] = type_filter
        escaped == Len(name) = 8 /\ name[6] = "\\" /\ name[8] = type_filter
    IN  IF /\ Len(name) >= 5
           /\ name[1] = re_filter.prefix
           /\ name[2] = re_filter.sep
           /\ name[3] \in Words
           /\ name[4] = re_filter.sep
           /\ name[5] \in Words
           /\ (plain \/ escaped)
        THEN name[3]
        ELSE None

\* re_filter = None.
NoFilter == [prefix |-> None, sep |-> None]

\* name.split(".")[0]: the tokens before the first "." joined.
RECURSIVE BeforeFirstDot(_)
BeforeFirstDot(name) ==
    IF name = <<>> \/ Head(name) = "." THEN ""
    ELSE Head(name) \o BeforeFirstDot(Tail(name))

\* The outcome of _extract_info on what get_service_info returned, with the
\* listener's configured filter: the exception is re-raised by the except
\* clause, or the result is None (no match) or a ServiceInfo.
extract_info(re_filter, type_filter, info) ==
    IF info = NoZeroconfInfo
    THEN [raised |-> TRUE, info |-> NoInfo]            \* None.addresses
    ELSE IF info.addresses = <<>>
    THEN [raised |-> TRUE, info |-> NoInfo]            \* addresses[0]
    ELSE LET ip == inet_ntoa(info.addresses[1])
             port == info.port
             serial_num == ReMatch(re_filter, type_filter, info.name)
         IN  IF re_filter = NoFilter
             THEN [raised |-> FALSE,
                   info |-> ServiceInfo(BeforeFirstDot(info.name), ip, port)]
             ELSE IF serial_num # None
             THEN [raised |-> FALSE, info |-> ServiceInfo(serial_num, ip, port)]
             ELSE [raised |-> FALSE, info |-> NoInfo]

(***************************************************************************)
(* References to ServiceInfo objects held outside the registry.            *)
(***************************************************************************)
\* A reference: the object's value, and whether it is the very object the
\* online mapping holds for its serial.
Ref(info, aliased) == [info |-> info, aliased |-> aliased]

NoRef == Ref(NoInfo, FALSE)

\* The online mapping's entry for key was replaced or removed: references to
\* the old object no longer reach the registry.
Unalias(ref, key) ==
    IF ref.aliased /\ ref.info.serial_number = key THEN Ref(ref.info, FALSE) ELSE ref

(***************************************************************************)
(* ObjectManager: a dict with its insertion order.                         *)
(***************************************************************************)
EmptyManager == [order |-> <<>>, objects |-> [k \in {} |-> NoRef]]

\* keys(): the keys in the dict's iteration order.
OM_keys(om) == om.order

\* __getitem__: the object, or None on KeyError.
OM_get(om, key) == IF key \in DOMAIN om.objects THEN om.objects[key] ELSE NoRef

\* remove(): del self[key] if present.
OM_remove(om, key) ==
    IF key \in DOMAIN om.objects
    THEN [order |-> SelectSeq(om.order, LAMBDA k : k # key),
          objects |-> DictPop(om.objects, key)]
    ELSE om

\* add(): self[key] = obj.  Keys are strings and every object a ServiceInfo,
\* so neither TypeError is raised.
OM_add(om, key, obj) ==
    [order |-> IF key \in DOMAIN om.objects THEN om.order ELSE Append(om.order, key),
     objects |-> DictSet(om.objects, key, obj)]

\* A Python object the application may hand to an ObjectManager: its type
\* and its value.
PyObject(type, value) == [type |-> type, value |-> value]

\* isinstance(obj, type), for types none of which derives from another.
isinstance(obj, type) == obj.type = type

\* Variant: add() that stores the object before it tests its type.
ObjectManager_add_StoreFirst(om, key, obj) ==
    LET stored == [order |-> IF key.value \in DOMAIN om.objects THEN om.order
                             ELSE Append(om.order, key.value),
                   objects |-> DictSet(om.objects, key.value, obj)]
    IN  IF ~isinstance(key, "str")
        THEN [om |-> om, raised |-> TRUE]
        ELSE IF Len(om.order) > 0 /\ ~isinstance(obj, om.objects[om.order[1]].type)
        THEN [om |-> stored, raised |-> TRUE]
        ELSE [om |-> stored, raised |-> FALSE]

\* ObjectManager.add: TypeError for a key that is no str, TypeError for an
\* object that is no instance of the type of the first object stored, and
\* self[key] = obj otherwise.
ObjectManager_add(om, key, obj) ==
    IF ~isinstance(key, "str")
    THEN [om |-> om, raised |-> TRUE]
    ELSE IF Len(om.order) > 0 /\ ~isinstance(obj, om.objects[om.order[1]].type)
    THEN [om |-> om, raised |-> TRUE]
    ELSE [om |-> [order |-> IF key.value \in DOMAIN om.objects THEN om.order
                            ELSE Append(om.order, key.value),
                  objects |-> DictSet(om.objects, key.value, obj)],
          raised |-> FALSE]

\* An ObjectManager of the application's, with the call running on it.
NoStore ==
    [order |-> <<>>, objects |-> [k \in {} |-> PyObject("int", "0")],
     pc |-> "idle", key |-> PyObject(None, None), obj |-> PyObject(None, None),
     outcome |-> None]

\* No DeviceActions instance yet.
NoActions == [serial_number |-> None, current_comm_uri |-> None]

(***************************************************************************)
(* Initial state: MDnsContext.__init__ and DeviceConnection.__init__ have  *)
(* run, the adb server was restarted, no callback or call is running.      *)
(***************************************************************************)
Placement(reg, key) ==
    IF key \in DOMAIN reg.online /\ key \in DOMAIN reg.offline THEN "both"
    ELSE IF key \in DOMAIN reg.online THEN "online"
    ELSE IF key \in DOMAIN reg.offline THEN "offline"
    ELSE "unseen"

\* The listener's callback and its registry call: the listener method and
\* the record the browser supplied, the mutator's arguments, where the key
\* was when the call began and whether the call's own mapping already held
\* an equal record for it.
NoCall ==
    [pc |-> "idle", method |-> None, raw |-> NoZeroconfInfo, op |-> None,
     key |-> None, data |-> NoInfo, prev |-> None, same |-> FALSE]

NoRet == [bool |-> FALSE, status |-> None, conn |-> NoRef]

NoDone == [fn |-> None, outcome |-> None]

NoSnap == [ref |-> None, atcall |-> EmptyDict]

\* AdbConnectionDiscovery.__init__: not started, no Zeroconf, no browser, no
\* finalizer.  Zeroconf instances are numbered in the order of creation, 0
\* standing for None; closed holds the instances whose close() has run.
NewDiscovery ==
    [started |-> FALSE, zeroconf |-> 0, browser |-> 0, finalize |-> 0,
     instances |-> 0, closed |-> {}]

\* if not self.__started: a Zeroconf, a ServiceBrowser on it with the
\* listener, the finalizer of the Zeroconf; self.__started = True.
StartedDiscovery(d) ==
    [d EXCEPT !.instances = d.instances + 1,
              !.zeroconf = d.instances + 1,
              !.browser = d.instances + 1,
              !.finalize = d.instances + 1,
              !.started = TRUE]

\* AdbPairing's default max_zeroconf_instances.
DEFAULT_MAX_ZC_INSTANCES == 10

\* No AdbPairing instance yet.  An instance has its service name, password
\* and the data of its QRCode object, its browser and Zeroconf (numbered as
\* the discovery's), the old instances it retains and how many of them it
\* was built to retain, and its own MDnsContext.
NoPairing ==
    [name |-> None, passwd |-> None, qrcode |-> None, started |-> FALSE,
     zeroconf |-> 0, browser |-> 0, finalize |-> 0, instances |-> 0,
     closed |-> {}, zombies |-> <<>>,
     max_zc_instances |-> DEFAULT_MAX_ZC_INSTANCES,
     context |-> [online |-> EmptyDict, offline |-> EmptyDict]]

\* check_adb_dependencies_version has not been called.
NoCheck ==
    [pc |-> "idle", adb_version |-> None, sdk_version |-> None, output |-> <<>>,
     curr_adb_v |-> <<>>, curr_sdk_v |-> <<>>, req_adb_v |-> <<>>, req_sdk_v |-> <<>>,
     label |-> 0, warnings |-> <<>>, outcome |-> None, message |-> None]

\* Everything but the discovery's lifecycle.
InitObjects ==
    /\ online = EmptyDict
    /\ offline = EmptyDict
    /\ mutex = FALSE
    /\ lst = NoCall
    /\ stack = <<>>
    /\ ret = NoRet
    /\ done = NoDone
    /\ snap = NoSnap
    /\ managed = EmptyManager
    /\ devices = [a \in {} |-> None]
    /\ log = <<>>
    /\ pairing = NoPairing
    /\ check = NoCheck
    /\ store = NoStore
    /\ actions = NoActions

\* ConnectionManager.__init__ has created the discovery and started it.
Init ==
    /\ InitObjects
    /\ discovery = StartedDiscovery(NewDiscovery)

\* AdbConnectionDiscovery.__init__ has run and start() has not.
InitDiscovery ==
    /\ InitObjects
    /\ discovery = NewDiscovery

(***************************************************************************)
(* The listener thread.  A callback extracts the record, then calls the    *)
(* registry mutator of its kind: the mutator takes the mutex, pops, stores *)
(* and releases.                                                           *)
(***************************************************************************)
\* Variant: every listener method calls add_service.
Dispatch_AllAdd(method) == "add_service"

\* The registry mutator each listener method calls.
Dispatch(method) ==
    CASE method = "add_service" -> "add_service"
      [] method = "update_service" -> "update_service"
      [] method = "remove_service" -> "to_offline_service"

ListenerMethods == {"add_service", "update_service", "remove_service"}

\* The mapping a mutator stores into.
OwnMapping(op, reg) == IF op = "to_offline_service" THEN reg.offline ELSE reg.online

\* A step of the listener thread that replaced or removed the online
\* mapping's object for key detaches the foreground's references from it.
Detach(key) ==
    /\ stack' = [i \in DOMAIN stack |->
                    [stack[i] EXCEPT !.conn = Unalias(stack[i].conn, key)]]
    /\ ret' = [ret EXCEPT !.conn = Unalias(ret.conn, key)]
    /\ managed' = [managed EXCEPT !.objects =
                       [k \in DOMAIN managed.objects |-> Unalias(managed.objects[k], key)]]

\* MDnsListener.add_service / update_service / remove_service, up to the
\* point where the registry mutator has taken the mutex.  A record that
\* cannot be extracted ends the callback: by an exception, or silently.
Callback(method, raw) ==
    /\ lst.pc = "idle"
    /\ ~mutex
    /\ LET got == extract_info(DEFAULT_REGEX_FILTER, CONNECT_SERVICE_TYPE, raw)
           info == got.info
           op == Dispatch(method)
       IN  IF got.raised
           THEN /\ lst' = [NoCall EXCEPT !.pc = "raised", !.method = method,
                                         !.raw = raw, !.op = op]
                /\ mutex' = mutex
           ELSE IF info = NoInfo
           THEN /\ lst' = [NoCall EXCEPT !.pc = "skipped", !.method = method,
                                         !.raw = raw, !.op = op]
                /\ mutex' = mutex
           ELSE /\ lst' = [pc |-> "pop", method |-> method, raw |-> raw, op |-> op,
                           key |-> info.serial_number, data |-> info,
                           prev |-> Placement(Registry, info.serial_number),
                           same |-> /\ info.serial_number \in DOMAIN OwnMapping(op, Registry)
                                    /\ OwnMapping(op, Registry)[info.serial_number] = info]
                /\ mutex' = TRUE
    /\ UNCHANGED <<online, offline, fvars, snap, avars, cvars>>

\* The callback that raised or skipped is over.
CallbackEnd ==
    /\ lst.pc \in {"raised", "skipped"}
    /\ lst' = NoCall
    /\ UNCHANGED <<online, offline, mutex, fvars, snap, avars, cvars>>

\* if key_data in <other mapping>: <other mapping>.pop(key_data)
MutatorPop ==
    /\ lst.pc = "pop"
    /\ LET reg == PopOf(lst.op, Registry, lst.key)
       IN  /\ online' = reg.online
           /\ offline' = reg.offline
    /\ lst' = [lst EXCEPT !.pc = "set"]
    /\ IF lst.key \in DOMAIN online /\ lst.key \notin DOMAIN online'
       THEN Detach(lst.key)
       ELSE UNCHANGED <<stack, ret, managed>>
    /\ UNCHANGED <<mutex, done, snap, avars, devices, log>>

\* <own mapping>[key_data] = data
MutatorSet ==
    /\ lst.pc = "set"
    /\ LET reg == SetOf(lst.op, Registry, lst.key, lst.data)
       IN  /\ online' = reg.online
           /\ offline' = reg.offline
    /\ lst' = [lst EXCEPT !.pc = "release"]
    /\ IF lst.op # "to_offline_service"
       THEN Detach(lst.key)
       ELSE UNCHANGED <<stack, ret, managed>>
    /\ UNCHANGED <<mutex, done, snap, avars, devices, log>>

\* Leaving the with block releases the mutex; the callback returns.
MutatorRelease ==
    /\ lst.pc = "release"
    /\ lst' = NoCall
    /\ mutex' = FALSE
    /\ UNCHANGED <<online, offline, fvars, snap, avars, cvars>>

Listener(raws) ==
    \/ \E method \in ListenerMethods, raw \in raws : Callback(method, raw)
    \/ CallbackEnd
    \/ MutatorPop
    \/ MutatorSet
    \/ MutatorRelease

(***************************************************************************)
(* The foreground thread: calls, returns and exceptions.                   *)
(***************************************************************************)
\* A frame: the function, where it is, its arguments and locals, and whether
\* the serial it is about was in one of the two mappings when it was called.
Frame(fn, pc, serial, info, force) ==
    [fn |-> fn, pc |-> pc, serial |-> serial, info |-> info, force |-> force,
     selected |-> <<>>, n |-> 0, success |-> FALSE, conn |-> NoRef,
     placed |-> Placement(Registry, serial) \in {"online", "offline"},
     timeout_s |-> 0, elapsed |-> 0, items |-> <<>>, all_ops |-> <<>>]

Top == stack[Len(stack)]

Running(fn, pc) == stack # <<>> /\ Top.fn = fn /\ Top.pc = pc

Goto(pc) == stack' = [stack EXCEPT ![Len(stack)].pc = pc]

\* The application calls into the library.
Enter(frame) ==
    /\ stack = <<>>
    /\ stack' = <<frame>>
    /\ ret' = NoRet
    /\ done' = NoDone
    /\ log' = <<>>

\* The running function calls another and will resume at pc.
Call(frame, pc) ==
    /\ stack' = Append([stack EXCEPT ![Len(stack)].pc = pc], frame)
    /\ ret' = NoRet
    /\ done' = done

\* return value
Return(value) ==
    /\ stack' = SubSeq(stack, 1, Len(stack) - 1)
    /\ ret' = value
    /\ done' = IF Len(stack) = 1 THEN [fn |-> Top.fn, outcome |-> "returned"] ELSE done

\* An exception nobody catches unwinds the whole stack.
Raise(exception) ==
    /\ stack' = <<>>
    /\ ret' = NoRet
    /\ done' = [fn |-> stack[1].fn, outcome |-> exception]

Bool(b) == [NoRet EXCEPT !.bool = b]

(***************************************************************************)
(* MDnsContext getters: under the mutex, they return the dictionary        *)
(* itself.  A caller that then reads it reads the live mapping.  The       *)
(* callers name them get_online_service / get_offline_service; the model   *)
(* binds those calls to the two getters the class defines.                 *)
(***************************************************************************)
get_online_service_list == "online"

get_offline_service_list == "offline"

\* The contents, now, of the dictionary a getter returned.
Deref(ref) == IF ref = "online" THEN online ELSE offline

(***************************************************************************)
(* AdbConnectionDiscovery.connection_status_for_device, reached through    *)
(* ConnectionManager.check_wireless_adb_service_for.                       *)
(***************************************************************************)
StatusFrame(info) ==
    Frame("connection_status_for_device", "offline_get", info.serial_number, info, FALSE)

check_wireless_adb_service_for(info) ==
    /\ Enter(StatusFrame(info))
    /\ UNCHANGED <<lvars, snap, avars, managed, devices>>

\* self.__context.get_offline_service()
StatusGetOffline ==
    /\ Running("connection_status_for_device", "offline_get")
    /\ ~mutex
    /\ Goto("offline_in")
    /\ UNCHANGED <<lvars, ret, done, snap, avars, cvars>>

\* if service_info.serial_number in <offline>: return DOWN
StatusInOffline ==
    /\ Running("connection_status_for_device", "offline_in")
    /\ IF Top.serial \in DOMAIN Deref(get_offline_service_list)
       THEN Return([NoRet EXCEPT !.status = "DOWN"])
       ELSE Goto("online_get") /\ UNCHANGED <<ret, done>>
    /\ UNCHANGED <<lvars, snap, avars, cvars>>

\* self.__context.get_online_service()
StatusGetOnline ==
    /\ Running("connection_status_for_device", "online_get")
    /\ ~mutex
    /\ Goto("online_in")
    /\ UNCHANGED <<lvars, ret, done, snap, avars, cvars>>

\* if service_info.serial_number not in <online>: return UNKNOWN
StatusInOnline ==
    /\ Running("connection_status_for_device", "online_in")
    /\ IF Top.serial \notin DOMAIN Deref(get_online_service_list)
       THEN Return([NoRet EXCEPT !.status = "UNKNOWN"])
       ELSE Goto("lookup_get") /\ UNCHANGED <<ret, done>>
    /\ UNCHANGED <<lvars, snap, avars, cvars>>

\* services_data = self.__context.get_online_service()
StatusGetLookup ==
    /\ Running("connection_status_for_device", "lookup_get")
    /\ ~mutex
    /\ Goto("lookup")
    /\ UNCHANGED <<lvars, ret, done, snap, avars, cvars>>

\* Variant: a lookup that compares the ports as well.
StatusLookup_WithPort ==
    /\ Running("connection_status_for_device", "lookup")
    /\ LET services_data == Deref(get_online_service_list)
       IN  IF Top.serial \notin DOMAIN services_data
           THEN Raise("KeyError")
           ELSE IF /\ services_data[Top.serial].ip = Top.info.ip
                   /\ services_data[Top.serial].port = Top.info.port
           THEN Return([NoRet EXCEPT !.status = "UPDATED"])
           ELSE Return([NoRet EXCEPT !.status = "CHANGED"])
    /\ UNCHANGED <<lvars, snap, avars, cvars>>

\* service_ref = services_data[serial_number]; compare the two ips
StatusLookup ==
    /\ Running("connection_status_for_device", "lookup")
    /\ LET services_data == Deref(get_online_service_list)
       IN  IF Top.serial \notin DOMAIN services_data
           THEN Raise("KeyError")
           ELSE IF services_data[Top.serial].ip = Top.info.ip
           THEN Return([NoRet EXCEPT !.status = "UPDATED"])
           ELSE Return([NoRet EXCEPT !.status = "CHANGED"])
    /\ UNCHANGED <<lvars, snap, avars, cvars>>

connection_status_for_device ==
    \/ StatusGetOffline
    \/ StatusInOffline
    \/ StatusGetOnline
    \/ StatusInOnline
    \/ StatusGetLookup
    \/ StatusLookup

(***************************************************************************)
(* AdbConnectionDiscovery.online_devices / offline_devices (and            *)
(* ConnectionManager.available_devices): the application receives what the *)
(* registry getter returned and keeps it while callbacks go on.            *)
(***************************************************************************)
online_devices ==
    /\ stack = <<>>
    /\ ~mutex
    /\ snap' = [ref |-> get_online_service_list,
                atcall |-> Deref(get_online_service_list)]
    /\ UNCHANGED <<lvars, fvars, cvars, avars>>

offline_devices ==
    /\ stack = <<>>
    /\ ~mutex
    /\ snap' = [ref |-> get_offline_service_list,
                atcall |-> Deref(get_offline_service_list)]
    /\ UNCHANGED <<lvars, fvars, cvars, avars>>

\* The application lets go of the mapping.
Release ==
    /\ snap # NoSnap
    /\ snap' = NoSnap
    /\ UNCHANGED <<lvars, fvars, cvars, avars>>

(***************************************************************************)
(* The adb command-line tool, as the connection layer uses it.             *)
(***************************************************************************)
\* f"{ip}:{port}"
CommUri(ip, port) == ip \o ":" \o ToString(port)

\* An adb command the library ran: its argument and whether adb reported
\* success.
Cmd(cmd, arg, ok) == [cmd |-> cmd, arg |-> arg, ok |-> ok]

\* adb connect <address>: on success the address is listed as a device.
AdbConnect(table, address, ok) ==
    IF ok THEN DictSet(table, address, "device") ELSE table

\* adb kill-server: every connection of the server is gone.
AdbKillServer == [a \in {} |-> None]

\* adb -s <address> tcpip <port>: the device's daemon restarts on the port;
\* the connection it was asked over may be lost.
AdbTcpip(table, address, lost) ==
    IF lost THEN DictPop(table, address) ELSE table

\* The lines of `adb devices`.
AdbDevices == {a \o "\t" \o devices[a] : a \in DOMAIN devices}

\* Python's `needle in line` for strings.
IsIn(needle, line) ==
    \E i \in 1..(Len(line) - Len(needle) + 1) :
        SubSeq(line, i, i + Len(needle) - 1) = needle

\* ConnectionManager.check_devices_adb_connection
check_devices_adb_connection(comm_uri) ==
    \E info_line \in AdbDevices : IsIn(comm_uri, info_line) /\ ~IsIn("offline", info_line)

(***************************************************************************)
(* ConnectionManager.device_connect, with                                  *)
(* AdbConnectionDiscovery.get_service_info_for inlined.                    *)
(***************************************************************************)
\* services_data = self.__context.get_online_service()
ConnectGet ==
    /\ Running("device_connect", "online_get")
    /\ ~mutex
    /\ Goto("online_in")
    /\ UNCHANGED <<lvars, ret, done, snap, avars, cvars>>

\* if serial_num in services_data: ... else info is None, a warning is logged
ConnectIn ==
    /\ Running("device_connect", "online_in")
    /\ IF Top.serial \in DOMAIN Deref(get_online_service_list)
       THEN Goto("lookup") /\ UNCHANGED <<ret, done>>
       ELSE Return(NoRet)
    /\ UNCHANGED <<lvars, snap, avars, cvars>>

\* Variant: a connect that returns None when adb reports failure.
ConnectLookup_NoneOnFailure ==
    /\ Running("device_connect", "lookup")
    /\ LET services_data == Deref(get_online_service_list)
       IN  IF Top.serial \notin DOMAIN services_data
           THEN Raise("KeyError") /\ UNCHANGED <<devices, log>>
           ELSE LET info == services_data[Top.serial]
                    comm_uri == CommUri(info.ip, info.port)
                IN  \E ok \in BOOLEAN :
                        /\ devices' = AdbConnect(devices, comm_uri, ok)
                        /\ log' = Append(log, Cmd("connect", comm_uri, ok))
                        /\ Return(IF ok THEN [NoRet EXCEPT !.conn = Ref(info, TRUE)]
                                        ELSE NoRet)
    /\ UNCHANGED <<lvars, snap, avars, managed>>

\* return services_data[serial_num]; then adb connect ip:port, whose
\* failure is only logged; the registry's object is returned.
ConnectLookup ==
    /\ Running("device_connect", "lookup")
    /\ LET services_data == Deref(get_online_service_list)
       IN  IF Top.serial \notin DOMAIN services_data
           THEN Raise("KeyError") /\ UNCHANGED <<devices, log>>
           ELSE LET info == services_data[Top.serial]
                    comm_uri == CommUri(info.ip, info.port)
                IN  /\ \E ok \in BOOLEAN :
                           /\ devices' = AdbConnect(devices, comm_uri, ok)
                           /\ log' = Append(log, Cmd("connect", comm_uri, ok))
                    /\ Return([NoRet EXCEPT !.conn = Ref(info, TRUE)])
    /\ UNCHANGED <<lvars, snap, avars, managed>>

device_connect ==
    \/ ConnectGet
    \/ ConnectIn
    \/ ConnectLookup

(***************************************************************************)
(* DeviceConnection.establish_first_connection                             *)
(***************************************************************************)
EstablishFrame(serial) ==
    Frame("establish_first_connection", "loop", serial, NoInfo, FALSE)

establish_first_connection(serial) ==
    /\ Enter(EstablishFrame(serial))
    /\ UNCHANGED <<lvars, snap, avars, managed, devices>>

\* Variant: a loop that connects in every iteration.
EstablishLoop_Always ==
    /\ Running("establish_first_connection", "loop")
    /\ IF Top.n < 3
       THEN Call(Frame("device_connect", "online_get", Top.serial, NoInfo, FALSE), "got")
       ELSE Goto("store") /\ UNCHANGED <<ret, done>>
    /\ UNCHANGED <<lvars, snap, avars, cvars>>

\* for _ in range(3): if not success: connection = device_connect(serial)
EstablishLoop ==
    /\ Running("establish_first_connection", "loop")
    /\ IF Top.n < 3
       THEN IF ~Top.success
            THEN Call(Frame("device_connect", "online_get", Top.serial, NoInfo, FALSE), "got")
            ELSE /\ stack' = [stack EXCEPT ![Len(stack)].n = Top.n + 1]
                 /\ UNCHANGED <<ret, done>>
       ELSE Goto("store") /\ UNCHANGED <<ret, done>>
    /\ UNCHANGED <<lvars, snap, avars, cvars>>

\* if connection is not None: success = True; else the failure is printed
EstablishGot ==
    /\ Running("establish_first_connection", "got")
    /\ stack' = [stack EXCEPT ![Len(stack)].conn = ret.conn,
                              ![Len(stack)].success = (ret.conn # NoRef),
                              ![Len(stack)].n = Top.n + 1,
                              ![Len(stack)].pc = "loop"]
    /\ ret' = NoRet
    /\ UNCHANGED <<lvars, done, snap, avars, cvars>>

\* Variant: a store that runs the port fix whatever the stored port.
EstablishStore_AlwaysFix ==
    /\ Running("establish_first_connection", "store")
    /\ IF Top.conn # NoRef
       THEN /\ managed' = OM_add(OM_remove(managed, Top.serial),
                                 Top.conn.info.serial_number, Top.conn)
            /\ stack' = Append([stack EXCEPT ![Len(stack)].pc = "fixed",
                                               ![Len(stack)].conn = NoRef],
                                Frame("fix_adb_port", "start",
                                      Top.conn.info.serial_number, NoInfo, FALSE))
            /\ ret' = NoRet
            /\ done' = done
       ELSE /\ Return(Bool(FALSE))
            /\ managed' = managed
    /\ UNCHANGED <<lvars, snap, avars, devices, log>>

\* if connection is not None: replace the managed record, fix the port if
\* it is not the fixed port, return True; else return False.  From the
\* store on the local names the managed set's object, which is followed
\* there.
EstablishStore ==
    /\ Running("establish_first_connection", "store")
    /\ IF Top.conn # NoRef
       THEN /\ managed' = OM_add(OM_remove(managed, Top.serial),
                                 Top.conn.info.serial_number, Top.conn)
            /\ IF Top.conn.info.port # DEFAULT_FIXED_PORT
               THEN /\ stack' = Append([stack EXCEPT ![Len(stack)].pc = "fixed",
                                                       ![Len(stack)].conn = NoRef],
                                        Frame("fix_adb_port", "start",
                                              Top.conn.info.serial_number, NoInfo, FALSE))
                    /\ ret' = NoRet
                    /\ done' = done
               ELSE Return(Bool(TRUE))
       ELSE /\ Return(Bool(FALSE))
            /\ managed' = managed
    /\ UNCHANGED <<lvars, snap, avars, devices, log>>

EstablishFixed ==
    /\ Running("establish_first_connection", "fixed")
    /\ Return(Bool(TRUE))
    /\ UNCHANGED <<lvars, snap, avars, cvars>>

establish_first_connection_body ==
    \/ EstablishLoop
    \/ EstablishGot
    \/ EstablishStore
    \/ EstablishFixed

(***************************************************************************)
(* DeviceConnection.__fix_adb_port                                         *)
(***************************************************************************)
FixValidate ==
    /\ Running("fix_adb_port", "start")
    /\ Call(Frame("validate_connection", "start", Top.serial, NoInfo, FALSE), "validated")
    /\ UNCHANGED <<lvars, snap, avars, cvars>>

\* Variant: the stored port is set first and the command goes to the
\* record's address after it.
FixPort_StoreFirst ==
    /\ Running("fix_adb_port", "validated")
    /\ IF ret.bool
       THEN LET device == OM_get(managed, Top.serial)
                fixed == [device.info EXCEPT !.port = DEFAULT_FIXED_PORT]
                comm_uri == CommUri(fixed.ip, fixed.port)
            IN  /\ \E lost \in BOOLEAN : devices' = AdbTcpip(devices, comm_uri, lost)
                /\ log' = Append(log, Cmd("tcpip", comm_uri, TRUE))
                /\ managed' = [managed EXCEPT !.objects[Top.serial].info = fixed]
                /\ online' = IF device.aliased
                             THEN [online EXCEPT ![Top.serial] = fixed]
                             ELSE online
                /\ Goto("store")
                /\ UNCHANGED <<ret, done>>
       ELSE Return(NoRet) /\ UNCHANGED <<online, cvars>>
    /\ UNCHANGED <<offline, mutex, lst, snap, avars>>

\* if self.validate_connection(serial_number): comm_uri of the stored
\* record, and adb -s <comm_uri> tcpip <fixed_port>.
FixPort ==
    /\ Running("fix_adb_port", "validated")
    /\ IF ret.bool
       THEN LET device == OM_get(managed, Top.serial)
                comm_uri == CommUri(device.info.ip, device.info.port)
            IN  /\ \E lost \in BOOLEAN : devices' = AdbTcpip(devices, comm_uri, lost)
                /\ log' = Append(log, Cmd("tcpip", comm_uri, TRUE))
                /\ Goto("store")
                /\ UNCHANGED <<ret, done, managed>>
       ELSE Return(NoRet) /\ UNCHANGED cvars
    /\ UNCHANGED <<lvars, snap, avars>>

\* self.connection_info.get(serial_number).port = self.fixed_port: the
\* stored object's port is set, and the registry sees it too while it holds
\* that object.
FixStore ==
    /\ Running("fix_adb_port", "store")
    /\ LET device == OM_get(managed, Top.serial)
           fixed == [device.info EXCEPT !.port = DEFAULT_FIXED_PORT]
       IN  /\ managed' = [managed EXCEPT !.objects[Top.serial].info = fixed]
           /\ online' = IF device.aliased
                        THEN [online EXCEPT ![Top.serial] = fixed]
                        ELSE online
    /\ Return(NoRet)
    /\ UNCHANGED <<offline, mutex, lst, snap, avars, devices, log>>

fix_adb_port ==
    \/ FixValidate
    \/ FixPort
    \/ FixStore

(***************************************************************************)
(* DeviceConnection.connect_all_devices and disconnect                     *)
(***************************************************************************)
\* Variant: connects to the address the discovery holds for the serial and to
\* the port of the stored record.
ConnectAllLoop_CurrentAddress ==
    /\ Running("connect_all_devices", "loop")
    /\ IF Top.n < Len(OM_keys(managed))
       THEN LET serial_number == OM_keys(managed)[Top.n + 1]
                device == OM_get(managed, serial_number)
                ip == IF serial_number \in DOMAIN online
                      THEN online[serial_number].ip
                      ELSE device.info.ip
                address == CommUri(ip, device.info.port)
            IN  /\ \E ok \in BOOLEAN :
                       /\ devices' = AdbConnect(devices, address, ok)
                       /\ log' = Append(log, Cmd("connect", address, ok))
                /\ stack' = [stack EXCEPT ![Len(stack)].n = Top.n + 1]
                /\ UNCHANGED <<ret, done>>
       ELSE Return(NoRet) /\ UNCHANGED <<devices, log>>
    /\ UNCHANGED <<lvars, snap, avars, managed>>

\* for serial_number in keys(): adb connect <ip>:<fixed_port>
ConnectAllLoop ==
    /\ Running("connect_all_devices", "loop")
    /\ IF Top.n < Len(OM_keys(managed))
       THEN LET device == OM_get(managed, OM_keys(managed)[Top.n + 1])
                address == CommUri(device.info.ip, DEFAULT_FIXED_PORT)
            IN  /\ \E ok \in BOOLEAN :
                       /\ devices' = AdbConnect(devices, address, ok)
                       /\ log' = Append(log, Cmd("connect", address, ok))
                /\ stack' = [stack EXCEPT ![Len(stack)].n = Top.n + 1]
                /\ UNCHANGED <<ret, done>>
       ELSE Return(NoRet) /\ UNCHANGED <<devices, log>>
    /\ UNCHANGED <<lvars, snap, avars, managed>>

connect_all_devices == ConnectAllLoop

(***************************************************************************)
(* DeviceConnection.validate_connection                                    *)
(***************************************************************************)
ValidateFrame(serial, force) ==
    Frame("validate_connection", "start", serial, NoInfo, force)

validate_connection(serial, force) ==
    /\ Enter(ValidateFrame(serial, force))
    /\ UNCHANGED <<lvars, snap, avars, managed, devices>>

\* Nested forced validations on the stack.
Depth == Cardinality({i \in DOMAIN stack :
                        stack[i].fn = "validate_connection" /\ stack[i].force})

\* Variant: a forced validation of a serial that is not managed connects it.
ValidateStart_ConnectUnmanaged ==
    /\ Running("validate_connection", "start")
    /\ LET device == OM_get(managed, Top.serial)
       IN  IF device = NoRef
           THEN IF Top.force
                THEN Call(EstablishFrame(Top.serial), "reconnect")
                ELSE Return(Bool(FALSE))
           ELSE Call(StatusFrame(device.info), "status")
    /\ UNCHANGED <<lvars, snap, avars, cvars>>

\* if get(serial) is None: return False; else ask the discovery for the
\* status of the managed record.
ValidateStart ==
    /\ Running("validate_connection", "start")
    /\ LET device == OM_get(managed, Top.serial)
       IN  IF device = NoRef
           THEN Return(Bool(FALSE))
           ELSE Call(StatusFrame(device.info), "status")
    /\ UNCHANGED <<lvars, snap, avars, cvars>>

\* The operand of != is `UPDATED or not check_devices_adb_connection(uri)`:
\* an enum member is truthy, so `or` yields UPDATED and the check never runs.
ValidateExpected == "UPDATED"

\* Variant: a forced validation gives up, returning False, once it is
\* nested two deep.
ValidateStatus_Ceiling ==
    /\ Running("validate_connection", "status")
    /\ IF ret.status # ValidateExpected
       THEN IF Top.force /\ Depth < 2
            THEN Call(EstablishFrame(Top.serial), "reconnect")
            ELSE Return(Bool(FALSE))
       ELSE Return(Bool(TRUE))
    /\ UNCHANGED <<lvars, snap, avars, cvars>>

\* if coninfostatus != (...): reconnect when forced, else return False;
\* otherwise return True.
ValidateStatus ==
    /\ Running("validate_connection", "status")
    /\ IF ret.status # ValidateExpected
       THEN IF Top.force
            THEN Call(EstablishFrame(Top.serial), "reconnect")
            ELSE Return(Bool(FALSE))
       ELSE Return(Bool(TRUE))
    /\ UNCHANGED <<lvars, snap, avars, cvars>>

\* Variant: reconnects all the devices without killing the server first.
ValidateReconnect_NoDisconnect ==
    /\ Running("validate_connection", "reconnect")
    /\ Call(Frame("connect_all_devices", "loop", Top.serial, NoInfo, FALSE), "revalidate")
    /\ UNCHANGED <<lvars, snap, avars, cvars>>

\* self.disconnect(): adb kill-server; then self.connect_all_devices()
ValidateReconnect ==
    /\ Running("validate_connection", "reconnect")
    /\ devices' = AdbKillServer
    /\ log' = Append(log, Cmd("kill-server", "", TRUE))
    /\ Call(Frame("connect_all_devices", "loop", Top.serial, NoInfo, FALSE), "revalidate")
    /\ UNCHANGED <<lvars, snap, avars, managed>>

\* return self.validate_connection(serial_number, force_reconnect)
ValidateAgain ==
    /\ Running("validate_connection", "revalidate")
    /\ Depth < MaxDepth
    /\ Call(ValidateFrame(Top.serial, Top.force), "result")
    /\ UNCHANGED <<lvars, snap, avars, cvars>>

ValidateResult ==
    /\ Running("validate_connection", "result")
    /\ Return(Bool(ret.bool))
    /\ UNCHANGED <<lvars, snap, avars, cvars>>

validate_connection_body ==
    \/ ValidateStart
    \/ ValidateStatus

\* The forced reconnection of validate_connection.
validate_connection_reconnect ==
    \/ ValidateReconnect
    \/ ValidateAgain
    \/ ValidateResult

(***************************************************************************)
(* DeviceConnection.disconnect, connect_all_devices as calls of the        *)
(* application, check_connections and start_connection.                    *)
(***************************************************************************)
\* The application calls disconnect(): adb kill-server.
disconnect ==
    /\ Enter(Frame("disconnect", "kill", None, NoInfo, FALSE))
    /\ UNCHANGED <<lvars, snap, avars, managed, devices>>

Disconnect ==
    /\ Running("disconnect", "kill")
    /\ devices' = AdbKillServer
    /\ log' = Append(log, Cmd("kill-server", "", TRUE))
    /\ Return(NoRet)
    /\ UNCHANGED <<lvars, snap, avars, managed>>

\* The application calls connect_all_devices().
ConnectAllEnter ==
    /\ Enter(Frame("connect_all_devices", "loop", None, NoInfo, FALSE))
    /\ UNCHANGED <<lvars, snap, avars, managed, devices>>

\* is_connected(serial, devices_connected): f'{ip}:{port}\tdevice' is in
\* the output of adb devices.
is_connected(om, serial_number) ==
    LET device == OM_get(om, serial_number)
        substr == CommUri(device.info.ip, device.info.port) \o "\tdevice"
    IN  \E info_line \in AdbDevices : IsIn(substr, info_line)

\* Variant: a check that is satisfied by one connected device.
check_connections_Any(om) ==
    \E i \in DOMAIN OM_keys(om) : is_connected(om, OM_keys(om)[i])

\* check_connections(): adb devices is read once; False at the first
\* managed serial that is not connected, True after the last.
check_connections(om) ==
    \A i \in DOMAIN OM_keys(om) : is_connected(om, OM_keys(om)[i])

\* The application calls check_connections().
CheckConnectionsEnter ==
    /\ Enter(Frame("check_connections", "check", None, NoInfo, FALSE))
    /\ UNCHANGED <<lvars, snap, avars, managed, devices>>

CheckConnections ==
    /\ Running("check_connections", "check")
    /\ Return(Bool(check_connections(managed)))
    /\ UNCHANGED <<lvars, snap, avars, cvars>>

\* The lists of devices the application selects.
Selections ==
    {<<s>> : s \in Serials} \cup {sel \in Serials \X Serials : sel[1] # sel[2]}

StartFrame(selected_devices) ==
    [Frame("start_connection", "loop", None, NoInfo, FALSE)
        EXCEPT !.selected = selected_devices]

start_connection(selected_devices) ==
    /\ Enter(StartFrame(selected_devices))
    /\ UNCHANGED <<lvars, snap, avars, managed, devices>>

\* for selected_serial_num in selected_devices:
\*     self.establish_first_connection(selected_serial_num)
StartLoop ==
    /\ Running("start_connection", "loop")
    /\ IF Top.n < Len(Top.selected)
       THEN /\ stack' = Append([stack EXCEPT ![Len(stack)].n = Top.n + 1],
                               EstablishFrame(Top.selected[Top.n + 1]))
            /\ ret' = NoRet
            /\ done' = done
       ELSE Goto("disconnect") /\ UNCHANGED <<ret, done>>
    /\ UNCHANGED <<lvars, snap, avars, cvars>>

\* self.disconnect(); self.connect_all_devices()
StartDisconnect ==
    /\ Running("start_connection", "disconnect")
    /\ devices' = AdbKillServer
    /\ log' = Append(log, Cmd("kill-server", "", TRUE))
    /\ Call(Frame("connect_all_devices", "loop", None, NoInfo, FALSE), "check")
    /\ UNCHANGED <<lvars, snap, avars, managed>>

\* return self.check_connections()
StartCheck ==
    /\ Running("start_connection", "check")
    /\ Return(Bool(check_connections(managed)))
    /\ UNCHANGED <<lvars, snap, avars, cvars>>

start_connection_body ==
    \/ StartLoop
    \/ StartDisconnect
    \/ StartCheck

\* The network drops a connected device: adb lists it as offline.
DeviceOffline ==
    /\ \E a \in DOMAIN devices :
           /\ devices[a] = "device"
           /\ devices' = [devices EXCEPT ![a] = "offline"]
    /\ UNCHANGED <<lvars, fvars, snap, avars, managed, log>>

(***************************************************************************)
(* AdbConnectionDiscovery: start and stop_discovery_listener.              *)
(***************************************************************************)
\* The browser delivers events while its Zeroconf has not been closed.
Browsing ==
    discovery.browser # 0 /\ discovery.browser \notin discovery.closed

\* The application calls start().
start ==
    /\ Enter(Frame("start", "test", None, NoInfo, FALSE))
    /\ UNCHANGED <<lvars, snap, avars, cvars>>

\* Variant: start() that does not look at __started.
DiscoveryStartTest_Always ==
    /\ Running("start", "test")
    /\ Goto("create")
    /\ UNCHANGED <<lvars, ret, done, snap, avars, cvars>>

\* if not self.__started:
DiscoveryStartTest ==
    /\ Running("start", "test")
    /\ IF ~discovery.started THEN Goto("create") ELSE Goto("end")
    /\ UNCHANGED <<lvars, ret, done, snap, avars, cvars>>

\* Zeroconf(), ServiceBrowser(...), weakref.finalize(...), __started = True
DiscoveryStartCreate ==
    /\ Running("start", "create")
    /\ discovery' = StartedDiscovery(discovery)
    /\ Return(NoRet)
    /\ UNCHANGED <<lvars, snap, cvars, pairing, check, store, actions>>

\* start() found the browser started and returns.
DiscoveryStartEnd ==
    /\ Running("start", "end")
    /\ Return(NoRet)
    /\ UNCHANGED <<lvars, snap, avars, cvars>>

\* The application calls stop_discovery_listener().
stop_discovery_listener ==
    /\ Enter(Frame("stop_discovery_listener", "close", None, NoInfo, FALSE))
    /\ UNCHANGED <<lvars, snap, avars, cvars>>

\* self.__zeroconf.close(): nothing else is assigned; None has no close.
\* The finalizer's callback, which would reset __started, runs when the
\* Zeroconf object is collected, and the object stays referenced by
\* self.__zeroconf.
DiscoveryStopClose ==
    /\ Running("stop_discovery_listener", "close")
    /\ IF discovery.zeroconf = 0
       THEN Raise("AttributeError") /\ UNCHANGED discovery
       ELSE /\ discovery' = [discovery EXCEPT !.closed = @ \cup {discovery.zeroconf}]
            /\ Return(NoRet)
    /\ UNCHANGED <<lvars, snap, cvars, pairing, check, store, actions>>

(***************************************************************************)
(* AdbPairing.                                                             *)
(***************************************************************************)
PAIRING_SERVICE_TYPE == "_adb-tls-pairing._tcp.local."

\* AdbPairing's default service name.
DEFAULT_SERVICE_NAME == "robot-celular"

\* The service names the application configures.
ServiceNames == {DEFAULT_SERVICE_NAME, "lab"}

\* Passwords of 8 alphanumeric characters: what create_password() may draw
\* and what the application may set.
Passwords == {"Ab3dEf12", "Zz9yXx8w"}

\* An f-string: its literal parts and its fields' values, joined.
RECURSIVE FString(_)
FString(parts) ==
    IF parts = <<>> THEN "" ELSE Head(parts) \o FString(Tail(parts))

\* Variant: a payload without the terminating double semicolon.
generate_qrcode_string_Unterminated(service_name, password) ==
    FString(<<"WIFI:T:ADB;S:", service_name, ";P:", password>>)

\* f'WIFI:T:ADB;S:{service_name};P:{password};;'
generate_qrcode_string(service_name, password) ==
    FString(<<"WIFI:T:ADB;S:", service_name, ";P:", password, ";;">>)

\* The property qrcode_string.
qrcode_string(p) == generate_qrcode_string(p.name, p.passwd)

\* AdbPairing.__init__(service_name, password, max_zeroconf_instances): the
\* QRCode object is built from the payload; nothing is started.
NewPairing(service_name, password, max_zeroconf_instances) ==
    [NoPairing EXCEPT !.name = service_name,
                      !.passwd = password,
                      !.max_zc_instances = max_zeroconf_instances,
                      !.qrcode = generate_qrcode_string(service_name, password)]

\* _new_zeroconf_instance: while the list of old instances is not over the
\* maximum, the current instance, if any, is retained in it and a new one
\* is created.
new_zeroconf_instance(p) ==
    IF Len(p.zombies) <= p.max_zc_instances
    THEN [p EXCEPT !.zombies = IF p.zeroconf # 0 THEN Append(@, p.zeroconf) ELSE @,
                   !.instances = @ + 1,
                   !.zeroconf = p.instances + 1]
    ELSE p

\* AdbPairing.start: if not self._started, a Zeroconf instance, a browser
\* on it, its finalizer, and _started = True.
AdbPairing_start(p) ==
    IF ~p.started
    THEN LET q == new_zeroconf_instance(p)
         IN  [q EXCEPT !.browser = q.zeroconf, !.finalize = q.zeroconf, !.started = TRUE]
    ELSE p

\* stop_pair_listener: self._zeroconf.close(); _browser = None;
\* _started = False.
stop_pair_listener(p) ==
    [p EXCEPT !.closed = @ \cup {p.zeroconf}, !.browser = 0, !.started = FALSE]

\* has_device_to_pairing: len(online) > 0
has_device_to_pairing(p) == DOMAIN p.context.online # {}

\* The pairing services the network advertises: a name, an address, a port.
Candidates == {"P1", "P2"}

PairingName(candidate) == <<"studio", "-", candidate, ".", PAIRING_SERVICE_TYPE>>

PairingRaws ==
    {ZeroconfServiceInfo(PairingName("P1"), <<<<10, 0, 0, 5>>>>, 37001),
     ZeroconfServiceInfo(PairingName("P2"), <<<<10, 0, 0, 6>>>>, 37002)}

\* A callback of the pairing session's listener, which has no filter: the
\* whole of the listener method and of the mutator it calls, under the
\* context's mutex.
PairingCallback(method, raw) ==
    /\ pairing.browser # 0
    /\ pairing.browser \notin pairing.closed
    /\ LET got == extract_info(NoFilter, PAIRING_SERVICE_TYPE, raw)
       IN  /\ ~got.raised
           /\ got.info # NoInfo
           /\ pairing' = [pairing EXCEPT !.context =
                              CallOf(Dispatch(method), pairing.context,
                                     got.info.serial_number, got.info)]
    /\ UNCHANGED <<lvars, fvars, snap, cvars, discovery, check, store, actions>>

\* All the orders in which a dict with these keys may have been filled.
Orders(keys) ==
    {order \in [1..Cardinality(keys) -> keys] :
        \A i, j \in 1..Cardinality(keys) : i # j => order[i] # order[j]}

\* What adb pair prints.
AdbPairStdout(comm_uri, ok) ==
    IF ok THEN "Successfully paired to " \o comm_uri \o " [guid=adb-" \o comm_uri \o "]"
    ELSE "Failed: Wrong password or connection was dropped."

\* all(all_ops)
RECURSIVE all(_)
all(ops) == IF ops = <<>> THEN TRUE ELSE Head(ops) /\ all(Tail(ops))

\* What AdbPairing.pair_devices returns for the outcomes it collected:
\* if len(all_ops) == 0: return False; return all(all_ops)
pair_devices_result(all_ops) ==
    IF Len(all_ops) = 0 THEN FALSE ELSE all(all_ops)

\* Variant: any(all_ops).
PairDevicesEnd_Any ==
    /\ Running("pair_devices", "end")
    /\ Return(Bool(\E i \in DOMAIN Top.all_ops : Top.all_ops[i]))
    /\ UNCHANGED <<lvars, snap, avars, cvars>>

\* if len(all_ops) == 0: return False; return all(all_ops)
PairDevicesEnd ==
    /\ Running("pair_devices", "end")
    /\ Return(Bool(pair_devices_result(Top.all_ops)))
    /\ UNCHANGED <<lvars, snap, avars, cvars>>

\* online_services = list(self._context.get_online_service().items())
PairDevicesList ==
    /\ Running("pair_devices", "list")
    /\ \E order \in Orders(DOMAIN pairing.context.online) :
           stack' = [stack EXCEPT ![Len(stack)].pc = "loop",
                                  ![Len(stack)].items =
                                      [i \in DOMAIN order |-> pairing.context.online[order[i]]]]
    /\ UNCHANGED <<lvars, ret, done, snap, avars, cvars>>

\* for elem in online_services: adb pair <ip>:<port> <password>, and
\* whether the output reports the pairing.
PairDevicesLoop ==
    /\ Running("pair_devices", "loop")
    /\ IF Top.n < Len(Top.items)
       THEN LET elem == Top.items[Top.n + 1]
                comm_uri == CommUri(elem.ip, elem.port)
            IN  \E ok \in BOOLEAN :
                    LET stdout == AdbPairStdout(comm_uri, ok)
                    IN  /\ log' = Append(log, Cmd("pair", comm_uri \o " " \o pairing.passwd, ok))
                        /\ stack' = [stack EXCEPT
                               ![Len(stack)].n = Top.n + 1,
                               ![Len(stack)].all_ops =
                                   Append(@, IsIn("Successfully paired to " \o comm_uri, stdout))]
       ELSE Goto("end") /\ UNCHANGED log
    /\ UNCHANGED <<lvars, ret, done, snap, avars, managed, devices>>

(***************************************************************************)
(* AsyncAdbPairing.pair_devices, which overrides AdbPairing's.             *)
(***************************************************************************)
\* The application awaits pair_devices() of its instance.
async_pair_devices ==
    /\ pairing.name # None
    /\ Enter(Frame("async_pair_devices", "list", None, NoInfo, FALSE))
    /\ UNCHANGED <<lvars, snap, avars, managed, devices>>

\* online_services = self._context.get_online_service().items()
\* all_ops = [False] * len(online_services)
AsyncPairDevicesList ==
    /\ Running("async_pair_devices", "list")
    /\ \E order \in Orders(DOMAIN pairing.context.online) :
           stack' = [stack EXCEPT ![Len(stack)].pc = "loop",
                                  ![Len(stack)].items =
                                      [i \in DOMAIN order |-> pairing.context.online[order[i]]],
                                  ![Len(stack)].all_ops = [i \in DOMAIN order |-> FALSE]]
    /\ UNCHANGED <<lvars, ret, done, snap, avars, cvars>>

\* for idx, elem in enumerate(online_services): adb pair, and
\* all_ops[idx] = True when the output reports the pairing.
AsyncPairDevicesLoop ==
    /\ Running("async_pair_devices", "loop")
    /\ IF Top.n < Len(Top.items)
       THEN LET idx == Top.n + 1
                elem == Top.items[idx]
                comm_uri == CommUri(elem.ip, elem.port)
            IN  \E ok \in BOOLEAN :
                    LET stdout == AdbPairStdout(comm_uri, ok)
                    IN  /\ log' = Append(log, Cmd("pair", comm_uri \o " " \o pairing.passwd, ok))
                        /\ stack' = [stack EXCEPT
                               ![Len(stack)].n = idx,
                               ![Len(stack)].all_ops[idx] =
                                   IF IsIn("Successfully paired to " \o comm_uri, stdout)
                                   THEN TRUE ELSE @]
       ELSE Goto("end") /\ UNCHANGED log
    /\ UNCHANGED <<lvars, ret, done, snap, avars, managed, devices>>

\* return all(all_ops)
AsyncPairDevicesEnd ==
    /\ Running("async_pair_devices", "end")
    /\ Return(Bool(all(Top.all_ops)))
    /\ UNCHANGED <<lvars, snap, avars, cvars>>

(***************************************************************************)
(* ConnectionManager.device_pairing.                                       *)
(***************************************************************************)
\* The longest timeout, in polling intervals, the application passes.
MaxTimeout == 2

\* The application calls device_pairing(timeout_s).
device_pairing(timeout_s) ==
    /\ Enter([Frame("device_pairing", "start", None, NoInfo, FALSE)
                 EXCEPT !.timeout_s = timeout_s])
    /\ UNCHANGED <<lvars, snap, avars, managed, devices>>

\* adb_pairing = AdbPairing(); adb_pairing.start(); the QR code window is
\* shown until the user closes it; start_time = time()
DevicePairingStart ==
    /\ Running("device_pairing", "start")
    /\ \E password \in Passwords :
           pairing' = AdbPairing_start(NewPairing(DEFAULT_SERVICE_NAME, password,
                                                       DEFAULT_MAX_ZC_INSTANCES))
    /\ Goto("poll")
    /\ UNCHANGED <<lvars, ret, done, snap, cvars, discovery, check, store, actions>>

\* Variant: the loop polls until the timeout has elapsed, candidate or not.
DevicePairingPoll_UntilTimeout ==
    /\ Running("device_pairing", "poll")
    /\ IF Top.elapsed <= Top.timeout_s
       THEN /\ stack' = [stack EXCEPT ![Len(stack)].elapsed = Top.elapsed + 1]
            /\ UNCHANGED <<ret, done>>
       ELSE Call(Frame("pair_devices", "list", None, NoInfo, FALSE), "stop")
    /\ UNCHANGED <<lvars, snap, avars, cvars>>

\* while not has_device_to_pairing() and time() - start_time <= timeout_s:
\*     sleep(0.1)
\* result = adb_pairing.pair_devices()
DevicePairingPoll ==
    /\ Running("device_pairing", "poll")
    /\ IF ~has_device_to_pairing(pairing) /\ Top.elapsed <= Top.timeout_s
       THEN /\ stack' = [stack EXCEPT ![Len(stack)].elapsed = Top.elapsed + 1]
            /\ UNCHANGED <<ret, done>>
       ELSE Call(Frame("pair_devices", "list", None, NoInfo, FALSE), "stop")
    /\ UNCHANGED <<lvars, snap, avars, cvars>>

\* Variant: the listener is stopped only after a successful pairing.
DevicePairingStop_OnSuccess ==
    /\ Running("device_pairing", "stop")
    /\ pairing' = IF ret.bool THEN stop_pair_listener(pairing) ELSE pairing
    /\ Return(Bool(ret.bool))
    /\ UNCHANGED <<lvars, snap, cvars, discovery, check, store, actions>>

\* adb_pairing.stop_pair_listener(); return result
DevicePairingStop ==
    /\ Running("device_pairing", "stop")
    /\ pairing' = stop_pair_listener(pairing)
    /\ Return(Bool(ret.bool))
    /\ UNCHANGED <<lvars, snap, cvars, discovery, check, store, actions>>

(***************************************************************************)
(* The application's own AdbPairing instance: construction and password    *)
(* updates.                                                                *)
(***************************************************************************)
\* A call that is over in one step.
Ended(fn) ==
    /\ stack = <<>>
    /\ done' = [fn |-> fn, outcome |-> "returned"]
    /\ UNCHANGED <<stack, ret>>

\* AdbPairing(service_name, password, max_zeroconf_instances): password
\* None draws a new one.
AdbPairing(service_name, password, max_zeroconf_instances) ==
    /\ Ended("AdbPairing")
    /\ IF password = None
       THEN \E created \in Passwords :
                pairing' = NewPairing(service_name, created, max_zeroconf_instances)
       ELSE pairing' = NewPairing(service_name, password, max_zeroconf_instances)
    /\ UNCHANGED <<lvars, snap, cvars, discovery, check, store, actions>>

\* update_qrcode(new_password): draw a password if asked, then rebuild the
\* QRCode object from qrcode_string.
UpdatedQrcode(p, new_password, created) ==
    LET q == IF new_password THEN [p EXCEPT !.passwd = created] ELSE p
    IN  [q EXCEPT !.qrcode = qrcode_string(q)]

update_qrcode(new_password) ==
    /\ pairing.name # None
    /\ Ended("update_qrcode")
    /\ \E created \in Passwords : pairing' = UpdatedQrcode(pairing, new_password, created)
    /\ UNCHANGED <<lvars, snap, cvars, discovery, check, store, actions>>

\* set_password(password, update_qrcode)
set_password(password, with_update) ==
    /\ pairing.name # None
    /\ Ended("set_password")
    /\ LET p == [pairing EXCEPT !.passwd = password]
       IN  pairing' = IF with_update THEN UpdatedQrcode(p, FALSE, password) ELSE p
    /\ UNCHANGED <<lvars, snap, cvars, discovery, check, store, actions>>

\* The largest max_zeroconf_instances the application builds an AdbPairing
\* with.
MaxZcInstances == 2

\* AdbPairing.start() of the application's instance.  When the list of old
\* instances is over the maximum no Zeroconf is created, and ServiceBrowser,
\* given the instance stop_pair_listener closed, raises the RuntimeError
\* that start() raises again; _started stays False.
PairingStart ==
    /\ pairing.name # None
    /\ stack = <<>>
    /\ LET q == new_zeroconf_instance(pairing)
       IN  IF pairing.started
           THEN pairing' = pairing /\ done' = [fn |-> "AdbPairing.start", outcome |-> "returned"]
           ELSE IF q.zeroconf \in q.closed
           THEN pairing' = q /\ done' = [fn |-> "AdbPairing.start", outcome |-> "RuntimeError"]
           ELSE /\ pairing' = AdbPairing_start(pairing)
                /\ done' = [fn |-> "AdbPairing.start", outcome |-> "returned"]
    /\ UNCHANGED <<lvars, stack, ret, snap, cvars, discovery, check, store, actions>>

\* stop_pair_listener() of the application's instance: None has no close.
PairingStop ==
    /\ pairing.name # None
    /\ stack = <<>>
    /\ IF pairing.zeroconf = 0
       THEN pairing' = pairing /\ done' = [fn |-> "stop_pair_listener", outcome |-> "AttributeError"]
       ELSE /\ pairing' = stop_pair_listener(pairing)
            /\ done' = [fn |-> "stop_pair_listener", outcome |-> "returned"]
    /\ UNCHANGED <<lvars, stack, ret, snap, cvars, discovery, check, store, actions>>

(***************************************************************************)
(* check_adb_dependencies_version.                                         *)
(***************************************************************************)
ADB_VERSION == "1.0.41"

SDK_VERSION == "35.0.2"

\* The versions the caller may require and the ones adb may report.
RequiredAdb == {ADB_VERSION, "1.1.0"}

RequiredSdk == {SDK_VERSION, "35.1.0"}

InstalledAdb == {"0.9.41", "1.0.41", "1.3.42", "2.0.41"}

InstalledSdk == {"28.0.2", "34.0.2", "35.0.2", "36.0.2"}

\* The lines adb version prints, and the empty output of a missing adb.
AdbVersionOutputs ==
    {<<"Android Debug Bridge version " \o adb, "Version " \o sdk \o "-12147458",
       "Installed as /usr/bin/adb", "Revision 0a7d9e12b9b3-android">> :
        adb \in InstalledAdb, sdk \in InstalledSdk} \cup {<<>>}

\* str.lower(), for the letters of these lines.
LowerChar(c) ==
    CASE c = "A" -> "a"
      [] c = "D" -> "d"
      [] c = "B" -> "b"
      [] c = "V" -> "v"
      [] c = "I" -> "i"
      [] c = "R" -> "r"
      [] OTHER -> c

RECURSIVE lower(_)
lower(line) ==
    IF line = "" THEN ""
    ELSE LowerChar(SubSeq(line, 1, 1)) \o lower(SubSeq(line, 2, Len(line)))

\* str.find(sub): the 0-based index of the first occurrence, -1 if none.
find(line, sub) ==
    LET at == {i \in 1..(Len(line) - Len(sub) + 1) : SubSeq(line, i, i + Len(sub) - 1) = sub}
    IN  IF at = {} THEN -1 ELSE (CHOOSE i \in at : \A j \in at : i <= j) - 1

\* line[first:], first 0-based and not negative.
SliceFrom(line, first) == SubSeq(line, first + 1, Len(line))

\* str.split('.')
RECURSIVE split(_)
split(line) ==
    LET idx == find(line, ".")
    IN  IF idx = -1 THEN <<line>>
        ELSE <<SubSeq(line, 1, idx)>> \o split(SliceFrom(line, idx + 1))

DigitValue(c) ==
    CASE c = "0" -> 0 [] c = "1" -> 1 [] c = "2" -> 2 [] c = "3" -> 3 [] c = "4" -> 4
      [] c = "5" -> 5 [] c = "6" -> 6 [] c = "7" -> 7 [] c = "8" -> 8 [] c = "9" -> 9
      [] OTHER -> -1

IsNumber(word) ==
    /\ word # ""
    /\ \A i \in 1..Len(word) : DigitValue(SubSeq(word, i, i)) # -1

\* int(word), for a word of digits; anything else is a ValueError.
RECURSIVE int(_)
int(word) ==
    IF word = "" THEN 0
    ELSE 10 * int(SubSeq(word, 1, Len(word) - 1)) + DigitValue(SubSeq(word, Len(word), Len(word)))

Labels == <<"major", "minor">>

\* DependencyNotFoundError's message, without the backquotes around the
\* package name.
NotFoundMessage == "The android-tools-adb was not found in your system."

Min(a, b) == IF a <= b THEN a ELSE b

\* The number of tuples zip() yields.
ZipLen(c) ==
    Min(Min(Len(c.req_adb_v), Len(c.curr_adb_v)),
        Min(Min(Len(c.req_sdk_v), Len(c.curr_sdk_v)), Len(Labels)))

CheckUnchanged == UNCHANGED <<lvars, fvars, snap, cvars, discovery, pairing, store, actions>>

\* The call, and adb version run: its output split into lines.
check_adb_dependencies_version(adb_version, sdk_version) ==
    /\ check.pc \in {"idle", "done"}
    /\ \E output \in AdbVersionOutputs :
           check' = [NoCheck EXCEPT !.pc = "parse",
                                    !.adb_version = adb_version,
                                    !.sdk_version = sdk_version,
                                    !.output = output]
    /\ CheckUnchanged

\* adb, sdk, *_ = output, a ValueError with fewer than two lines; the text
\* after 'version ' of each, and the required versions, split at the dots.
CheckParse ==
    /\ check.pc = "parse"
    /\ IF Len(check.output) < 2
       THEN check' = [check EXCEPT !.pc = "done",
                                   !.outcome = "DependencyNotFoundError",
                                   !.message = NotFoundMessage]
       ELSE LET adb == check.output[1]
                sdk == check.output[2]
                adb_idx == find(lower(adb), "version")
                sdk_idx == find(lower(sdk), "version")
            IN  check' = [check EXCEPT !.pc = "loop",
                                       !.curr_adb_v = split(SliceFrom(adb, adb_idx + 8)),
                                       !.curr_sdk_v = split(SliceFrom(sdk, sdk_idx + 8)),
                                       !.req_adb_v = split(check.adb_version),
                                       !.req_sdk_v = split(check.sdk_version)]
    /\ CheckUnchanged

\* One pass of the loop body over the four numbers of a label: lower adb
\* raises, higher adb warns; then lower SDK raises, higher SDK warns.
CheckCompared(c, label, curr_adb, req_adb, curr_sdk, req_sdk) ==
    LET warned == [c EXCEPT !.warnings =
                      IF curr_adb > req_adb THEN Append(@, label \o " adb") ELSE @]
    IN  IF curr_adb < req_adb
        THEN [c EXCEPT !.pc = "done", !.outcome = "DependencyVersionError",
                       !.message = label \o " adb version is not supported."]
        ELSE IF curr_sdk < req_sdk
        THEN [warned EXCEPT !.pc = "done", !.outcome = "DependencyVersionError",
                            !.message = label \o " Android SDK version is not supported."]
        ELSE [warned EXCEPT !.label = @ + 1,
                            !.warnings =
                                IF curr_sdk > req_sdk THEN Append(@, label \o " Android SDK") ELSE @]

\* for r_adb, c_adb, r_sdk, c_sdk, label in zip(...): the four int()
\* conversions, a ValueError of any of which is the dependency not found,
\* then the comparisons; after the last tuple the function returns.
CheckLoop ==
    /\ check.pc = "loop"
    /\ IF check.label < ZipLen(check)
       THEN LET i == check.label + 1
                words == <<check.curr_adb_v[i], check.req_adb_v[i],
                           check.curr_sdk_v[i], check.req_sdk_v[i]>>
            IN  IF \A w \in DOMAIN words : IsNumber(words[w])
                THEN check' = CheckCompared(check, Labels[i], int(words[1]), int(words[2]),
                                            int(words[3]), int(words[4]))
                ELSE check' = [check EXCEPT !.pc = "done",
                                            !.outcome = "DependencyNotFoundError",
                                            !.message = NotFoundMessage]
       ELSE check' = [check EXCEPT !.pc = "done", !.outcome = "returned"]
    /\ CheckUnchanged

(***************************************************************************)
(* An ObjectManager filled by the application.                             *)
(***************************************************************************)
\* The keys and the objects the application passes to add().
StoreKeys == {PyObject("str", "one"), PyObject("str", "two"), PyObject("int", "1")}

StoreObjects ==
    {PyObject("int", "1"), PyObject("int", "2"), PyObject("str", "2"),
     PyObject("ServiceInfo", "d1")}

StoreUnchanged == UNCHANGED <<lvars, fvars, snap, cvars, discovery, pairing, check, actions>>

\* The application calls add(key, obj).
StoreAddCall(key, obj) ==
    /\ store.pc = "idle"
    /\ store' = [store EXCEPT !.pc = "add", !.key = key, !.obj = obj, !.outcome = None]
    /\ StoreUnchanged

\* The body of add().
StoreAdd ==
    /\ store.pc = "add"
    /\ LET om == [order |-> store.order, objects |-> store.objects]
           result == ObjectManager_add(om, store.key, store.obj)
       IN  store' = [store EXCEPT !.pc = "idle",
                                  !.order = result.om.order,
                                  !.objects = result.om.objects,
                                  !.outcome = IF result.raised THEN "TypeError" ELSE "returned"]
    /\ StoreUnchanged

\* The application calls remove(key) with a str: del self[key] if present.
StoreRemove(key) ==
    /\ store.pc = "idle"
    /\ isinstance(key, "str")
    /\ LET om == OM_remove([order |-> store.order, objects |-> store.objects], key.value)
       IN  store' = [store EXCEPT !.order = om.order, !.objects = om.objects,
                                  !.key = key, !.obj = PyObject(None, None),
                                  !.outcome = "returned"]
    /\ StoreUnchanged

(***************************************************************************)
(* DeviceActions (DeviceInfo and the app infos keep their address the same *)
(* way).                                                                   *)
(***************************************************************************)
\* DeviceConnection.build_comm_uri: f'{device.ip}:{device.port}' of the
\* managed record.
build_comm_uri(serial_number) ==
    LET device == OM_get(managed, serial_number)
    IN  CommUri(device.info.ip, device.info.port)

\* DeviceActions(device_connection, serial_number): current_comm_uri is
\* built here, from the managed record; with no managed record the
\* attribute access on None raises.
DeviceActions(serial_number) ==
    /\ stack = <<>>
    /\ UNCHANGED <<stack, ret>>
    /\ IF OM_get(managed, serial_number) = NoRef
       THEN /\ done' = [fn |-> "DeviceActions", outcome |-> "AttributeError"]
            /\ UNCHANGED actions
       ELSE /\ done' = [fn |-> "DeviceActions", outcome |-> "returned"]
            /\ actions' = [serial_number |-> serial_number,
                           current_comm_uri |-> build_comm_uri(serial_number)]
    /\ UNCHANGED <<lvars, snap, cvars, discovery, pairing, check, store>>

\* The application calls click_by_coordinates(x, y) on the instance.
click_by_coordinates ==
    /\ actions.serial_number # None
    /\ Enter(Frame("click_by_coordinates", "start", actions.serial_number, NoInfo, FALSE))
    /\ UNCHANGED <<lvars, snap, avars, managed, devices>>

\* if self.validate_connection(): forced validation of the serial
ClickValidate ==
    /\ Running("click_by_coordinates", "start")
    /\ Call(ValidateFrame(Top.serial, TRUE), "validated")
    /\ UNCHANGED <<lvars, snap, avars, cvars>>

\* adb -s <self.current_comm_uri> shell input tap x y, if it is valid
ClickTap ==
    /\ Running("click_by_coordinates", "validated")
    /\ IF ret.bool
       THEN log' = Append(log, Cmd("shell", actions.current_comm_uri, TRUE))
       ELSE UNCHANGED log
    /\ Return(NoRet)
    /\ UNCHANGED <<lvars, snap, avars, managed, devices>>

(***************************************************************************)
(* Specifications.                                                         *)
(***************************************************************************)
\* The records the network delivers: every device at every address and
\* port, a foreign service, a record without an address, and no record.
WellFormedRaws ==
    {ZeroconfServiceInfo(AdbName(s), <<b>>, p) : s \in Serials, b \in AddressBytes, p \in Ports}

MalformedRaws ==
    {ZeroconfServiceInfo(ForeignName, <<b>>, DEFAULT_FIXED_PORT) : b \in AddressBytes}
        \cup {ZeroconfServiceInfo(AdbName(s), <<>>, DEFAULT_FIXED_PORT) : s \in Serials}
        \cup {NoZeroconfInfo}

Raws == WellFormedRaws \cup MalformedRaws

\* The same network with every device advertising the fixed port.
FixedPortRaws == {r \in Raws : r.port \in {0, DEFAULT_FIXED_PORT}}

CallerInfos == [serial_number : Serials, ip : IPs, port : Ports]

Status ==
    \/ \E info \in CallerInfos : check_wireless_adb_service_for(info)
    \/ connection_status_for_device

\* The registry under the listener's callbacks.
NextRegistry == Listener(Raws)

SpecRegistry == Init /\ [][NextRegistry]_vars

\* Status queries between callbacks: no callback runs during a query.
NextSeq ==
    \/ stack = <<>> /\ Listener(Raws)
    \/ lst.pc = "idle" /\ Status

SpecSeq == Init /\ [][NextSeq]_vars

\* Status queries while callbacks arrive on the zeroconf thread.
Next ==
    \/ Listener(FixedPortRaws)
    \/ Status

Spec == Init /\ [][Next]_vars

\* The application holding a mapping while callbacks arrive.
NextSnapshot ==
    \/ Listener(FixedPortRaws)
    \/ online_devices
    \/ offline_devices
    \/ Release

SpecSnapshot == Init /\ [][NextSnapshot]_vars

\* Status queries between whole callbacks: the reads of a query never fall
\* inside a mutator.
NextCallbacks ==
    \/ Listener(FixedPortRaws)
    \/ lst.pc = "idle" /\ Status

SpecCallbacks == Init /\ [][NextCallbacks]_vars

\* The connection layer follows one device: it is discovered at
\* 10.0.0.5:40000 and at 10.0.0.6 on the fixed port, and the browser may
\* fail to supply a record.
ConnSerials == {"A1"}

ConnRaws ==
    {ZeroconfServiceInfo(AdbName("A1"), <<<<10, 0, 0, 5>>>>, 40000),
     ZeroconfServiceInfo(AdbName("A1"), <<<<10, 0, 0, 6>>>>, DEFAULT_FIXED_PORT),
     NoZeroconfInfo}

\* The connection layer while callbacks arrive: first connections and
\* validations without reconnection.
NextConn ==
    \/ Listener(ConnRaws)
    \/ \E serial \in ConnSerials : establish_first_connection(serial)
    \/ \E serial \in ConnSerials : validate_connection(serial, FALSE)
    \/ connection_status_for_device
    \/ device_connect
    \/ establish_first_connection_body
    \/ fix_adb_port
    \/ validate_connection_body

SpecConn == Init /\ [][NextConn]_vars

\* Forced validations between callbacks.
NextReconnect ==
    \/ stack = <<>> /\ Listener(ConnRaws)
    \/ /\ lst.pc = "idle"
       /\ \/ \E serial \in ConnSerials : establish_first_connection(serial)
          \/ \E serial \in ConnSerials : validate_connection(serial, TRUE)
          \/ connection_status_for_device
          \/ device_connect
          \/ establish_first_connection_body
          \/ fix_adb_port
          \/ connect_all_devices
          \/ validate_connection_body
          \/ validate_connection_reconnect

SpecReconnect == Init /\ [][NextReconnect]_vars

\* Device actions between callbacks: the device is connected, its
\* DeviceActions built, and its clicks validate with forced reconnection
\* while the device changes its address.
NextActions ==
    \/ stack = <<>> /\ Listener(ConnRaws)
    \/ /\ lst.pc = "idle"
       /\ \/ \E serial \in ConnSerials : establish_first_connection(serial)
          \/ \E serial \in ConnSerials : DeviceActions(serial)
          \/ click_by_coordinates
          \/ ClickValidate
          \/ ClickTap
          \/ connection_status_for_device
          \/ device_connect
          \/ establish_first_connection_body
          \/ fix_adb_port
          \/ connect_all_devices
          \/ validate_connection_body
          \/ validate_connection_reconnect

SpecActions == Init /\ [][NextActions]_vars

\* A session of the application with two devices: A1 is discovered at
\* 10.0.0.5:40000 and, after a new lease, at 10.0.0.7:40000; B2 at 10.0.0.6
\* on the fixed port.  The application's calls run between callbacks.
SessionRaws ==
    {ZeroconfServiceInfo(AdbName("A1"), <<<<10, 0, 0, 5>>>>, 40000),
     ZeroconfServiceInfo(AdbName("A1"), <<<<10, 0, 0, 7>>>>, 40000),
     ZeroconfServiceInfo(AdbName("B2"), <<<<10, 0, 0, 6>>>>, DEFAULT_FIXED_PORT),
     NoZeroconfInfo}

\* Reconnections of all managed devices between whole callbacks: a callback
\* may land between any two steps of a first connection, so a record may
\* keep the port it was discovered at and an address the device has left.
ConnectAllRaws ==
    {ZeroconfServiceInfo(AdbName("A1"), <<<<10, 0, 0, 5>>>>, 40000),
     ZeroconfServiceInfo(AdbName("A1"), <<<<10, 0, 0, 7>>>>, 40000),
     ZeroconfServiceInfo(AdbName("B2"), <<<<10, 0, 0, 6>>>>, DEFAULT_FIXED_PORT)}

NextConnectAll ==
    \/ \E raw \in ConnectAllRaws : Callback("add_service", raw)
    \/ MutatorPop
    \/ MutatorSet
    \/ MutatorRelease
    \/ lst.pc = "idle" /\ \E serial \in Serials : establish_first_connection(serial)
    \/ lst.pc = "idle" /\ ConnectAllEnter
    \/ lst.pc = "idle" /\ connection_status_for_device
    \/ lst.pc = "idle" /\ device_connect
    \/ lst.pc = "idle" /\ establish_first_connection_body
    \/ lst.pc = "idle" /\ fix_adb_port
    \/ lst.pc = "idle" /\ validate_connection_body
    \/ lst.pc = "idle" /\ connect_all_devices

SpecConnectAll == Init /\ [][NextConnectAll]_vars

\* The discovery's lifecycle: the application starts and stops it, and
\* callbacks arrive while the browser is live.
NextDiscovery ==
    \/ Browsing /\ \E method \in ListenerMethods, raw \in FixedPortRaws :
                       Callback(method, raw)
    \/ CallbackEnd
    \/ MutatorPop
    \/ MutatorSet
    \/ MutatorRelease
    \/ start
    \/ stop_discovery_listener
    \/ DiscoveryStartTest
    \/ DiscoveryStartCreate
    \/ DiscoveryStartEnd
    \/ DiscoveryStopClose

SpecDiscovery == InitDiscovery /\ [][NextDiscovery]_vars

\* Pairing: device_pairing calls with timeouts of up to MaxTimeout polling
\* intervals while pairing services come and go, and an AdbPairing instance
\* whose password the application changes between calls.
NextPairing ==
    \/ \E method \in {"add_service", "update_service", "remove_service"},
          raw \in PairingRaws :
           PairingCallback(method, raw)
    \/ \E timeout_s \in 0..MaxTimeout : device_pairing(timeout_s)
    \/ DevicePairingStart
    \/ DevicePairingPoll
    \/ DevicePairingStop
    \/ PairDevicesList
    \/ PairDevicesLoop
    \/ PairDevicesEnd
    \/ \E service_name \in ServiceNames, password \in Passwords \cup {None} :
           AdbPairing(service_name, password, DEFAULT_MAX_ZC_INSTANCES)
    \/ \E new_password \in BOOLEAN : update_qrcode(new_password)
    \/ \E password \in Passwords, with_update \in BOOLEAN :
           set_password(password, with_update)

SpecPairing == Init /\ [][NextPairing]_vars

\* The two services under one sequence of calls: each start() or stop of
\* the discovery is followed by the same call of an AdbPairing built with a
\* max_zeroconf_instances of up to MaxZcInstances.
DiscoveryCalled == done.fn \in {"start", "stop_discovery_listener"}

NextLifecycle ==
    \/ \E service_name \in ServiceNames, max_zeroconf_instances \in 1..MaxZcInstances :
           AdbPairing(service_name, None, max_zeroconf_instances)
    \/ pairing.name # None /\ ~DiscoveryCalled /\ start
    \/ pairing.name # None /\ ~DiscoveryCalled /\ stop_discovery_listener
    \/ DiscoveryStartTest
    \/ DiscoveryStartCreate
    \/ DiscoveryStartEnd
    \/ DiscoveryStopClose
    \/ done.fn = "start" /\ PairingStart
    \/ done.fn = "stop_discovery_listener" /\ PairingStop

SpecLifecycle == InitDiscovery /\ [][NextLifecycle]_vars

\* An AsyncAdbPairing whose session is started and stopped, whose context
\* the listener fills between the application's calls, and whose
\* pair_devices() the application awaits.
NextAsyncPairing ==
    \/ \E password \in Passwords :
           AdbPairing(DEFAULT_SERVICE_NAME, password, DEFAULT_MAX_ZC_INSTANCES)
    \/ PairingStart
    \/ PairingStop
    \/ stack = <<>> /\ \E method \in {"add_service", "update_service", "remove_service"},
                          raw \in PairingRaws :
                           PairingCallback(method, raw)
    \/ async_pair_devices
    \/ AsyncPairDevicesList
    \/ AsyncPairDevicesLoop
    \/ AsyncPairDevicesEnd

SpecAsyncPairing == Init /\ [][NextAsyncPairing]_vars

\* An ObjectManager under add and remove calls with keys and objects of
\* several types.
NextStore ==
    \/ \E key \in StoreKeys, obj \in StoreObjects : StoreAddCall(key, obj)
    \/ StoreAdd
    \/ \E key \in StoreKeys : StoreRemove(key)

SpecStore == Init /\ [][NextStore]_vars

\* The dependency check, called with the default or other required versions
\* against what adb version prints.
NextDependencies ==
    \/ \E adb_version \in RequiredAdb, sdk_version \in RequiredSdk :
           check_adb_dependencies_version(adb_version, sdk_version)
    \/ CheckParse
    \/ CheckLoop

SpecDependencies == Init /\ [][NextDependencies]_vars

NextSession ==
    \/ stack = <<>> /\ \E method \in ListenerMethods, raw \in SessionRaws :
                           Callback(method, raw)
    \/ CallbackEnd
    \/ MutatorPop
    \/ MutatorSet
    \/ MutatorRelease
    \/ stack = <<>> /\ lst.pc = "idle" /\ DeviceOffline
    \/ lst.pc = "idle" /\ \E selected \in Selections : start_connection(selected)
    \/ lst.pc = "idle" /\ \E serial \in Serials, force \in BOOLEAN :
                              validate_connection(serial, force)
    \/ lst.pc = "idle" /\ disconnect
    \/ lst.pc = "idle" /\ ConnectAllEnter
    \/ lst.pc = "idle" /\ CheckConnectionsEnter
    \/ Disconnect
    \/ CheckConnections
    \/ start_connection_body
    \/ connection_status_for_device
    \/ device_connect
    \/ establish_first_connection_body
    \/ fix_adb_port
    \/ connect_all_devices
    \/ validate_connection_body
    \/ validate_connection_reconnect

SpecSession == Init /\ [][NextSession]_vars

(***************************************************************************)
(* Properties of the registry.                                             *)
(***************************************************************************)
\* The registry call the listener has just completed, seen before the mutex
\* is released.
Completed(op) == lst.pc = "release" /\ lst.op = op

\* C1: after any sequence of add / update / moveOffline calls, and at every
\* point a reader can observe, no serial is in both the online and the
\* offline mapping.
C1_NoSerialInBothMappings == DOMAIN online \cap DOMAIN offline = {}

\* A call has moved a serial from one mapping to the other while both
\* mappings hold records.
C1_Witness ==
    /\ lst.pc = "release"
    /\ lst.prev \in {"online", "offline"}
    /\ lst.prev # Placement(Registry, lst.key)
    /\ online # EmptyDict
    /\ offline # EmptyDict

\* C7: add(S, R) leaves S online bound to R and absent from the offline
\* mapping, whatever S's previous placement; so moveOffline(S, R) followed
\* by add(S, R2) yields S not offline and online[S] = R2.
C7_AddPostcondition ==
    Completed("add_service") =>
        /\ lst.key \in DOMAIN online
        /\ online[lst.key] = lst.data
        /\ lst.key \notin DOMAIN offline

\* An add has completed for a serial that a moveOffline had put offline.
C7_Witness ==
    /\ Completed("add_service")
    /\ lst.prev = "offline"
    /\ online[lst.key] = lst.data

\* C8: moveOffline(S, R) leaves S offline bound to R and absent from the
\* online mapping, whatever S's previous placement.
C8_MoveOfflinePostcondition ==
    Completed("to_offline_service") =>
        /\ lst.key \in DOMAIN offline
        /\ offline[lst.key] = lst.data
        /\ lst.key \notin DOMAIN online

\* A moveOffline has completed for a serial that was online.
C8_Witness ==
    /\ Completed("to_offline_service")
    /\ lst.prev = "online"
    /\ offline[lst.key] = lst.data

\* The records a caller can pass for a serial.
RecordsFor(serial) == {info \in CallerInfos : info.serial_number = serial}

\* C9: update(S, R) and add(S, R) applied to the same registry state give
\* the same online and offline mappings, and a completed update has add's
\* postcondition: S online bound to R, promoted out of the offline mapping
\* or inserted when unseen.
C9_UpdateEqualsAdd ==
    /\ \A key \in Serials : \A data \in RecordsFor(key) :
           update_service(Registry, key, data) = add_service(Registry, key, data)
    /\ Completed("update_service") =>
           /\ lst.key \in DOMAIN online
           /\ online[lst.key] = lst.data
           /\ lst.key \notin DOMAIN offline

\* An update has completed for a serial that was offline, next to a serial
\* an update would insert.
C9_Witness ==
    /\ Completed("update_service")
    /\ lst.prev = "offline"
    /\ \E key \in Serials : Placement(Registry, key) = "unseen"

\* C10: repeating the registry call just completed changes nothing, and a
\* repeated add leaves one online entry for S, equal to R.
C10_Idempotent ==
    lst.pc = "release" =>
        /\ CallOf(lst.op, Registry, lst.key, lst.data) = Registry
        /\ lst.op = "add_service" =>
               /\ online[lst.key] = lst.data
               /\ lst.key \notin DOMAIN offline

\* The call just completed repeated the previous call for its serial: its
\* own mapping already held an equal record.
C10_Witness ==
    /\ lst.pc = "release"
    /\ lst.same
    /\ lst.prev = Placement(Registry, lst.key)

(***************************************************************************)
(* Properties of the status query.                                         *)
(***************************************************************************)
\* The step by which the running call of fn ends and control goes back to
\* its caller.
Returns(fn) ==
    /\ stack # <<>>
    /\ Top.fn = fn
    /\ Len(stack') = Len(stack) - 1
    /\ done'.outcome # "KeyError"

\* C4: for every registry state and caller-held record, statusOf is DOWN iff
\* the serial is offline, UNKNOWN iff it is in neither mapping, UPDATED iff
\* it is online with the record's IP and CHANGED iff it is online with
\* another IP; the record's port is not looked at.
C4_StatusClassification ==
    [][(stack # <<>> /\ Top.fn = "connection_status_for_device"
            /\ Len(stack') < Len(stack)) =>
        LET serial == Top.info.serial_number
            status == ret'.status
        IN  /\ done'.outcome = "returned"
            /\ status \in ConnectionInfoStatus
            /\ status = "DOWN" <=> serial \in DOMAIN offline
            /\ status = "UNKNOWN" <=> serial \notin DOMAIN online \cup DOMAIN offline
            /\ status = "UPDATED" <=>
                   serial \in DOMAIN online /\ online[serial].ip = Top.info.ip
            /\ status = "CHANGED" <=>
                   serial \in DOMAIN online /\ online[serial].ip # Top.info.ip]_vars

\* A query is comparing a record with the online record of its serial: the
\* IPs are equal and the ports differ.
C4_Witness ==
    /\ Running("connection_status_for_device", "lookup")
    /\ Top.serial \in DOMAIN online
    /\ online[Top.serial].ip = Top.info.ip
    /\ online[Top.serial].port # Top.info.port

\* C5: a statusOf that runs while callbacks arrive never returns UNKNOWN
\* for a serial that was in one of the two mappings when the query began
\* (callbacks then only move it between the two).
C5_NeverUnknownForKnownSerial ==
    [][(Returns("connection_status_for_device") /\ Top.placed) =>
        ret'.status # "UNKNOWN"]_vars

\* C6: the mapping a snapshot call returned still has, between callbacks,
\* the contents it had when it was returned.
C6_SnapshotIsACopy ==
    (snap.ref # None /\ lst.pc = "idle") => Deref(snap.ref) = snap.atcall

(***************************************************************************)
(* Properties of the connection layer.                                     *)
(***************************************************************************)
\* The managed records, without the bookkeeping of references.
ManagedRecords(om) ==
    [order |-> om.order, infos |-> [k \in DOMAIN om.objects |-> om.objects[k].info]]

\* C2: validate(serial, forceReconnect=false) on a managed serial returns
\* true iff the status of the managed record is UPDATED and the device
\* table lists the record's address as connected.
C2_ValidateIffUpdatedAndLive ==
    [][(Running("validate_connection", "status") /\ ~Top.force
            /\ Len(stack') < Len(stack)) =>
        LET device == OM_get(managed, Top.serial)
            comm_uri == CommUri(device.info.ip, device.info.port)
        IN  ret'.bool <=> /\ ret.status = "UPDATED"
                          /\ check_devices_adb_connection(comm_uri)]_vars

\* C3: establishFirst calls connect at most 3 times and never after a call
\* returned a record; it returns success with that record stored in the
\* managed set, replacing any prior record, iff a call returned a record,
\* and otherwise returns failure having left the managed set unchanged.
C3_EstablishFirst ==
    [][/\ (Running("establish_first_connection", "loop")
               /\ Len(stack') > Len(stack)) =>
            /\ stack'[Len(stack')].fn = "device_connect"
            /\ Top.n < 3
            /\ Top.conn = NoRef
       /\ (Running("establish_first_connection", "store")
               /\ Len(stack') # Len(stack)) =>
            IF Top.conn # NoRef
            THEN /\ Top.conn.info.serial_number = Top.serial
                 /\ OM_get(managed', Top.serial) = Top.conn
                 /\ Len(stack') < Len(stack) => ret'.bool
            ELSE /\ Len(stack') < Len(stack)
                 /\ ~ret'.bool
                 /\ managed' = managed
       /\ Returns("establish_first_connection") =>
            /\ ret'.bool <=> (Top.pc = "fixed" \/ Top.conn # NoRef)
            /\ ret'.bool => OM_get(managed', Top.serial) # NoRef
       /\ (stack # <<>> /\ stack[1].fn = "establish_first_connection"
               /\ ManagedRecords(managed') # ManagedRecords(managed)) =>
            \/ Running("establish_first_connection", "store") /\ Top.conn # NoRef
            \/ Running("fix_adb_port", "store")]_vars

\* A first connection has returned success for a serial whose record is in
\* the managed set: a connect call found it online.
C3_Witness ==
    /\ stack = <<>>
    /\ done = [fn |-> "establish_first_connection", outcome |-> "returned"]
    /\ ret.bool
    /\ \E serial \in ConnSerials : OM_get(managed, serial) # NoRef

\* The running frame of fn, at pc, takes a step that ends the call or calls
\* another function.
Leaves(fn, pc) == Running(fn, pc) /\ Len(stack') # Len(stack)

\* The last adb command issued.
Last(cmds) == cmds[Len(cmds)]

\* C11: connect(serial) returns not-found and issues no raw connect when the
\* serial is absent from the online mapping, also when it is offline;
\* otherwise it issues one raw connect to the registry record's ip:port and
\* returns that record of the registry, whatever adb reported.
C11_Connect ==
    [][/\ Running("device_connect", "online_in") =>
            IF Top.serial \in DOMAIN online
            THEN Len(stack') = Len(stack)
            ELSE Len(stack') < Len(stack) =>
                    /\ ret'.conn = NoRef
                    /\ done'.outcome # "KeyError"
       /\ (Leaves("device_connect", "lookup") /\ done'.outcome # "KeyError") =>
            /\ Top.serial \in DOMAIN online
            /\ Len(log') = Len(log) + 1
            /\ Last(log').cmd = "connect"
            /\ Last(log').arg = CommUri(online[Top.serial].ip, online[Top.serial].port)
            /\ ret'.conn = Ref(online[Top.serial], TRUE)
       /\ (stack # <<>> /\ Top.fn = "device_connect" /\ <<log, devices>>' # <<log, devices>>) =>
            Top.pc = "lookup"]_vars

\* A connect has returned the registry's record although adb reported that
\* the raw connect failed.
C11_Witness ==
    /\ Running("establish_first_connection", "got")
    /\ ret.conn # NoRef
    /\ log # <<>>
    /\ Last(log).cmd = "connect"
    /\ ~Last(log).ok

\* The adb commands of one kind among cmds.
Issued(cmds, cmd) == {i \in DOMAIN cmds : cmds[i].cmd = cmd}

\* C12: a connect attempt whose raw connect reports failure does not count
\* as a success of establishFirst: it reports success only if some raw
\* connect of the call succeeded, and stores nothing otherwise.
C12_FailedConnectIsRetried ==
    [][Returns("establish_first_connection") =>
        /\ ret'.bool => \E i \in Issued(log', "connect") : log'[i].ok
        /\ ~ret'.bool => managed' = managed]_vars

\* C13: establishFirst, on success, runs the port fix before returning iff
\* the newly stored record's port differs from the fixed port; with the
\* fixed port stored it returns at once and no tcpip command was issued.
C13_PortFixIffNotFixedPort ==
    [][/\ (Leaves("establish_first_connection", "store") /\ Top.conn # NoRef) =>
            /\ OM_get(managed', Top.serial).info.port = Top.conn.info.port
            /\ IF Top.conn.info.port # DEFAULT_FIXED_PORT
               THEN /\ Len(stack') = Len(stack) + 1
                    /\ stack'[Len(stack')].fn = "fix_adb_port"
                    /\ stack'[Len(stack)].pc = "fixed"
               ELSE /\ Len(stack') = Len(stack) - 1
                    /\ ret'.bool
                    /\ Issued(log', "tcpip") = {}
       /\ Leaves("establish_first_connection", "fixed") =>
            /\ Len(stack') = Len(stack) - 1
            /\ ret'.bool
       /\ (Len(log') > Len(log) /\ Last(log').cmd = "tcpip") =>
            Running("fix_adb_port", "validated")]_vars

\* A first connection has returned success after its port fix switched the
\* device to the fixed port.
C13_Witness ==
    /\ stack = <<>>
    /\ done = [fn |-> "establish_first_connection", outcome |-> "returned"]
    /\ ret.bool
    /\ Issued(log, "tcpip") # {}

\* connect_all_devices is running or has run in the application's current
\* call.
ConnectAllInvoked ==
    \E i \in DOMAIN stack :
        \/ stack[i].fn = "connect_all_devices"
        \/ stack[i].fn = "start_connection" /\ stack[i].pc = "check"
        \/ stack[i].fn = "validate_connection" /\ stack[i].pc \in {"revalidate", "result"}

\* C14: the port of a managed record discovered at another port becomes
\* the fixed port only after connectAll has been invoked: no step sets the
\* port of a record already stored before that.
C14_PortFixedOnlyAfterConnectAll ==
    [][\A serial \in DOMAIN managed.objects \cap DOMAIN managed'.objects :
        (/\ ~Running("establish_first_connection", "store")
         /\ managed.objects[serial].info.port # DEFAULT_FIXED_PORT
         /\ managed'.objects[serial].info.port = DEFAULT_FIXED_PORT)
            => ConnectAllInvoked]_vars

\* The raw connects connect_all_devices has to issue for the managed set.
ConnectAllAddresses(om) ==
    [i \in DOMAIN OM_keys(om) |->
        CommUri(OM_get(om, OM_keys(om)[i]).info.ip, DEFAULT_FIXED_PORT)]

\* C15: connect_all_devices issues one raw connect per managed serial, in
\* the order of the keys, each to the ip of the stored record and the fixed
\* port, whatever the registry holds and whatever port is stored; it issues
\* nothing else and leaves the managed set unchanged.
C15_ConnectAll ==
    [][/\ Running("connect_all_devices", "loop") /\ lst.pc = "idle"
          => managed' = managed
       /\ Returns("connect_all_devices") /\ Len(stack) = 1
          => /\ Len(log) = Len(OM_keys(managed))
             /\ \A i \in DOMAIN log :
                    /\ log[i].cmd = "connect"
                    /\ log[i].arg = ConnectAllAddresses(managed)[i]]_vars

\* connect_all_devices has reconnected two devices, one of them stored with
\* the port it was discovered at and an address the registry no longer holds.
C15_Witness ==
    /\ stack = <<>>
    /\ done.fn = "connect_all_devices"
    /\ Len(log) = 2
    /\ \E serial \in DOMAIN managed.objects :
           /\ managed.objects[serial].info.port # DEFAULT_FIXED_PORT
           /\ serial \in DOMAIN online
           /\ online[serial].ip # managed.objects[serial].info.ip

\* C16: validate_connection of a serial that is not managed returns False
\* at once, forced or not: it calls nothing (no status query, no first
\* connection), issues no adb command and leaves the managed set and the
\* device table as they are.
C16_ValidateUnmanaged ==
    [][Running("validate_connection", "start")
       /\ lst.pc = "idle"
       /\ OM_get(managed, Top.serial) = NoRef
          => /\ Len(stack') = Len(stack) - 1
             /\ ret' = Bool(FALSE)
             /\ Len(stack) = 1 => done' = [fn |-> "validate_connection", outcome |-> "returned"]
             /\ log' = log
             /\ managed' = managed
             /\ devices' = devices
             /\ online' = online /\ offline' = offline]_vars

\* A validation has returned False with no command issued while nothing is
\* managed and both devices are online, so that a reconnection could have
\* connected them.
C16_Witness ==
    /\ stack = <<>>
    /\ done = [fn |-> "validate_connection", outcome |-> "returned"]
    /\ ret = Bool(FALSE)
    /\ log = <<>>
    /\ managed = EmptyManager
    /\ DOMAIN online = Serials

\* The function that resumes at pc after the step.
Resumes(fn, pc) ==
    /\ Len(stack') = Len(stack) - 1
    /\ stack' # <<>>
    /\ stack'[Len(stack')].fn = fn
    /\ stack'[Len(stack')].pc = pc

\* The call the step makes from fn, which will resume at pc.
Calls(fn, pc, frame) ==
    /\ Len(stack') = Len(stack) + 1
    /\ stack'[Len(stack)].fn = fn
    /\ stack'[Len(stack)].pc = pc
    /\ stack'[Len(stack')] = frame

\* C17: a forced validation of a managed serial whose test fails calls
\* establish_first_connection for the serial; when that has returned it
\* kills the adb server and calls connect_all_devices; when that has
\* returned, the last commands are the kill-server followed by one connect
\* for every managed serial, and only then it validates the serial again.
C17_ForcedReconnectOrder ==
    [][/\ (Running("validate_connection", "status") /\ lst.pc = "idle"
           /\ Top.force /\ ret.status # "UPDATED")
          => Calls("validate_connection", "reconnect", EstablishFrame(Top.serial))
       /\ Resumes("validate_connection", "reconnect")
          => Top.fn = "establish_first_connection"
       /\ Leaves("validate_connection", "reconnect")
          => /\ devices' = <<>>
             /\ log' = Append(log, Cmd("kill-server", "", TRUE))
             /\ managed' = managed
             /\ Calls("validate_connection", "revalidate",
                      Frame("connect_all_devices", "loop", Top.serial, NoInfo, FALSE))
       /\ Resumes("validate_connection", "revalidate")
          => Top.fn = "connect_all_devices"
       /\ Leaves("validate_connection", "revalidate")
          => /\ LET n == Len(OM_keys(managed))
                IN  /\ Len(log) > n
                    /\ log[Len(log) - n].cmd = "kill-server"
                    /\ \A i \in 1..n :
                           /\ log[Len(log) - n + i].cmd = "connect"
                           /\ log[Len(log) - n + i].arg = ConnectAllAddresses(managed)[i]
             /\ Calls("validate_connection", "result", ValidateFrame(Top.serial, Top.force))]_vars

\* A forced validation has killed the server and reconnected two managed
\* devices and is about to validate again.
C17_Witness ==
    /\ Running("validate_connection", "revalidate")
    /\ Top.force
    /\ Len(OM_keys(managed)) = 2
    /\ Len(log) > 2
    /\ log[Len(log) - 2].cmd = "kill-server"
    /\ Last(log).cmd = "connect"

\* The device table lists the stored address of the managed serial in the
\* connected state.
ListedConnected(serial) ==
    LET address == CommUri(managed.objects[serial].info.ip,
                           managed.objects[serial].info.port)
    IN  address \in DOMAIN devices /\ devices[address] = "device"

C19_DisconnectUnmanages ==
    (stack = <<>> /\ done = [fn |-> "disconnect", outcome |-> "returned"])
        => DOMAIN managed.objects = {}

\* C20: start_connection returns True only if every selected serial is in
\* the managed set and the device table lists its stored address as
\* connected.
C20_StartConnectionAllSelected ==
    [][(Returns("start_connection") /\ ret'.bool)
          => \A i \in DOMAIN Top.selected :
                 /\ Top.selected[i] \in DOMAIN managed.objects
                 /\ ListedConnected(Top.selected[i])]_vars

\* C21: start() on a discovery that is already started does nothing: no
\* Zeroconf and no browser is created, the started flag and the browser
\* stay as they are, and the call does not touch the registry.
C21_StartIsIdempotent ==
    [][/\ (Running("start", "test") /\ Len(stack') = Len(stack) /\ Top.pc # stack'[Len(stack')].pc
           /\ discovery.started)
          => /\ stack'[Len(stack')].pc = "end"
             /\ discovery' = discovery
       /\ Leaves("start", "end")
          => /\ discovery' = discovery
             /\ Len(stack) = 1 => done' = [fn |-> "start", outcome |-> "returned"]
       /\ (Running("start", "create") /\ discovery'.instances # discovery.instances)
          => ~discovery.started
       /\ (stack # <<>> /\ Top.fn = "start" /\ lst.pc = "idle" /\ lst'.pc = "idle")
          => online' = online /\ offline' = offline]_vars

\* start() has found the discovery started, with a device in the registry,
\* and returned.
C21_Witness ==
    /\ Running("start", "end")
    /\ discovery.started
    /\ discovery.instances = 1
    /\ online # EmptyDict

\* C22: when stop_discovery_listener() has returned, the discovery reports
\* not started, so that a following start() creates a new Zeroconf and
\* browser.
C22_StopReturnsToStopped ==
    (stack = <<>> /\ done = [fn |-> "stop_discovery_listener", outcome |-> "returned"])
        => ~discovery.started

\* The record a well-formed event carries: the serial in its name, its
\* first address in dotted decimal, its port.
Carried(raw) == ServiceInfo(raw.name[3], inet_ntoa(raw.addresses[1]), raw.port)

\* C23: for a well-formed record, add_service of the listener makes one call
\* of the registry's add_service, update_service one of update_service and
\* remove_service one of to_offline_service, with the extracted serial as
\* key and the extracted record as data: the callback neither raises nor
\* skips, the registry changes only by the pop and the store of that call,
\* and the callback is over when the call returns.
C23_DispatchByEventKind ==
    [][/\ (lst'.pc # "idle" /\ lst'.raw \in WellFormedRaws)
          => /\ lst'.pc \in {"pop", "set", "release"}
             /\ lst'.method = "add_service" => lst'.op = "add_service"
             /\ lst'.method = "update_service" => lst'.op = "update_service"
             /\ lst'.method = "remove_service" => lst'.op = "to_offline_service"
             /\ lst'.key = lst'.raw.name[3]
             /\ lst'.data = Carried(lst'.raw)
       /\ lst.pc = "idle" => Registry' = Registry
       /\ lst.pc = "pop"
          => /\ lst' = [lst EXCEPT !.pc = "set"]
             /\ Registry' = PopOf(lst.op, Registry, lst.key)
       /\ lst.pc = "set"
          => /\ lst' = [lst EXCEPT !.pc = "release"]
             /\ Registry' = SetOf(lst.op, Registry, lst.key, lst.data)
       /\ lst.pc = "release"
          => /\ lst' = NoCall
             /\ Registry' = Registry]_vars

\* A removed event for a device that was online has been handled by one
\* to_offline_service call carrying its record.
C23_Witness ==
    /\ Completed("to_offline_service")
    /\ lst.method = "remove_service"
    /\ lst.raw \in WellFormedRaws
    /\ lst.prev = "online"
    /\ offline[lst.key] = Carried(lst.raw)

\* The records whose name the default pattern does not match: the name does
\* not begin with adb-.
Foreign(raw) == raw.addresses # <<>> /\ raw.name # <<>> /\ raw.name[1] # "adb"

\* C24: an event of any kind whose service name does not match the pattern
\* is skipped: the callback does not raise, calls no mutator, and returns
\* with the registry and the mutex as they were.
C24_NoMatchIsSkipped ==
    [][/\ (lst.pc = "idle" /\ lst'.pc # "idle" /\ Foreign(lst'.raw))
          => /\ lst' = [NoCall EXCEPT !.pc = "skipped", !.method = lst'.method,
                                      !.raw = lst'.raw, !.op = lst'.op]
             /\ lst'.method \in ListenerMethods
             /\ Registry' = Registry
             /\ mutex' = mutex
       /\ lst.pc = "skipped"
          => /\ lst' = NoCall
             /\ Registry' = Registry
             /\ mutex' = mutex]_vars

\* A removed event with a foreign name is being skipped while the registry
\* holds devices.
C24_Witness ==
    /\ lst.pc = "skipped"
    /\ lst.method = "remove_service"
    /\ Foreign(lst.raw)
    /\ online # EmptyDict
    /\ ~mutex

\* C25: a callback whose record has no address, or for which the browser
\* supplied no record, is skipped: it ends without an exception.
C25_NoAddressIsSkipped ==
    (lst.pc # "idle" /\ lst.raw.addresses = <<>>) => lst.pc = "skipped"


\* The adb pair command for a record with the session's password.
PairCommand(elem) == CommUri(elem.ip, elem.port) \o " " \o pairing.passwd

\* C26: pair_devices takes every record that is online when it is called
\* once, issues for each of them one adb pair with the record's ip:port and
\* the password, in that order and nothing else, and returns true only if
\* there was an attempt and adb reported success for every one of them.
C26_PairEveryCandidate ==
    [][/\ (Running("pair_devices", "list") /\ stack' # stack) =>
            LET items == stack'[Len(stack')].items
            IN  /\ Len(items) = Cardinality(DOMAIN pairing.context.online)
                /\ \A key \in DOMAIN pairing.context.online :
                       \E i \in DOMAIN items : items[i] = pairing.context.online[key]
       /\ Leaves("pair_devices", "end") =>
            /\ Len(log) = Len(Top.items)
            /\ \A i \in DOMAIN log :
                   /\ log[i].cmd = "pair"
                   /\ log[i].arg = PairCommand(Top.items[i])
            /\ ret'.bool = (log # <<>> /\ \A i \in DOMAIN log : log[i].ok)]_vars

\* C26 witness: device_pairing has returned false after two attempts, of
\* which the first succeeded and the second failed.
C26_Witness ==
    /\ stack = <<>>
    /\ done = [fn |-> "device_pairing", outcome |-> "returned"]
    /\ Len(log) = 2
    /\ log[1].ok
    /\ ~log[2].ok
    /\ ~ret.bool

\* An MDnsContext no callback has touched.
EmptyContext == [online |-> EmptyDict, offline |-> EmptyDict]

C28_SessionTornDown ==
    (stack = <<>> /\ done.fn = "device_pairing") =>
        /\ done.outcome = "returned"
        /\ ~pairing.started
        /\ pairing.browser = 0
        /\ pairing.zeroconf # 0
        /\ pairing.zeroconf \in pairing.closed

\* C28 witness: device_pairing has returned false after a failed attempt and
\* the session is stopped.
C28_Witness ==
    /\ stack = <<>>
    /\ done.fn = "device_pairing"
    /\ Len(log) = 1
    /\ ~log[1].ok
    /\ ~ret.bool
    /\ ~pairing.started
    /\ pairing.zeroconf \in pairing.closed

\* C29: for every service name and password generate_qrcode_string is
\* 'WIFI:T:ADB;S:' + name + ';P:' + password + ';;', the documented example
\* included, and whatever the instance was built with and however its
\* password was changed since, its qrcode_string is that string of its
\* current name and password.
C29_PayloadOfCurrentCredential ==
    /\ generate_qrcode_string("robot-celular", "Ab3dEf12") =
           "WIFI:T:ADB;S:robot-celular;P:Ab3dEf12;;"
    /\ \A service_name \in ServiceNames, password \in Passwords :
           generate_qrcode_string(service_name, password) =
               "WIFI:T:ADB;S:" \o service_name \o ";P:" \o password \o ";;"
    /\ pairing.name # None =>
           qrcode_string(pairing) =
               "WIFI:T:ADB;S:" \o pairing.name \o ";P:" \o pairing.passwd \o ";;"

\* C29 witness: set_password without update_qrcode has changed the
\* password: the QRCode object still holds the payload of the old one.
C29_Witness ==
    /\ done = [fn |-> "set_password", outcome |-> "returned"]
    /\ pairing.name = "lab"
    /\ pairing.qrcode # qrcode_string(pairing)


\* A version lower than another, compared as versions: by the major number,
\* and by the minor number when the major numbers are equal.
VersionLower(curr, req) ==
    \/ int(curr[1]) < int(req[1])
    \/ int(curr[1]) = int(req[1]) /\ int(curr[2]) < int(req[2])

\* C30: a dependency check that found adb's versions ends with
\* DependencyVersionError exactly when the installed adb version or the
\* installed SDK version is lower, as a version, than the required one.
C30_RaisesIffLower ==
    (check.pc = "done" /\ check.outcome # "DependencyNotFoundError") =>
        (check.outcome = "DependencyVersionError" <=>
            \/ VersionLower(check.curr_adb_v, check.req_adb_v)
            \/ VersionLower(check.curr_sdk_v, check.req_sdk_v))


InPortFix == \E i \in DOMAIN stack : stack[i].fn = "fix_adb_port"

\* C32: the port fix issues the tcpip command only after its validation
\* returned true, to the ip and port the stored record has before the fix,
\* and leaves the record as it is in that step; the stored port is set in
\* the next step of the port fix, with the tcpip as the last command issued
\* and the ip kept; nothing but that tcpip is issued while the port fix
\* runs, so no connect; and when the validation returned false the port
\* fix returns with no command issued and the record unchanged.
C32_PortFixOrder ==
    [][/\ (Running("fix_adb_port", "validated")
              /\ (Len(stack') # Len(stack) \/ stack'[Len(stack')].pc # "validated")) =>
            LET device == OM_get(managed, Top.serial).info
            IN  /\ ManagedRecords(managed') = ManagedRecords(managed)
                /\ IF ret.bool
                   THEN /\ log' = Append(log, Cmd("tcpip", CommUri(device.ip, device.port), TRUE))
                        /\ device.port # DEFAULT_FIXED_PORT
                        /\ Len(stack') = Len(stack)
                        /\ stack'[Len(stack')].pc = "store"
                   ELSE /\ log' = log
                        /\ Len(stack') = Len(stack) - 1
       /\ Leaves("fix_adb_port", "store") =>
            LET device == OM_get(managed, Top.serial).info
            IN  /\ log' = log
                /\ Last(log) = Cmd("tcpip", CommUri(device.ip, device.port), TRUE)
                /\ OM_get(managed', Top.serial).info =
                       [device EXCEPT !.port = DEFAULT_FIXED_PORT]
       /\ (InPortFix /\ Len(log') > Len(log)) =>
            /\ Running("fix_adb_port", "validated")
            /\ ret.bool
            /\ Last(log').cmd = "tcpip"
       /\ (Len(log') > Len(log) /\ Last(log').cmd = "tcpip") => InPortFix]_vars

\* C32 witness: a first connection has ended whose port fix issued the
\* tcpip to port 40000 of the record and then stored the fixed port.
C32_Witness ==
    /\ stack = <<>>
    /\ done = [fn |-> "establish_first_connection", outcome |-> "returned"]
    /\ Issued(log, "tcpip") # {}
    /\ Last(log).cmd = "tcpip"
    /\ \E serial \in DOMAIN managed.objects :
           /\ managed.objects[serial].info.port = DEFAULT_FIXED_PORT
           /\ Last(log).arg = CommUri(managed.objects[serial].info.ip, 40000)


\* C33: a forced validation of a managed serial returns only true, and
\* only from a status test that passed or from the nested validation that
\* returned true; a status test that fails calls establish_first_connection
\* at whatever depth, and after connect_all_devices the only step is the
\* nested validation with the same arguments: no step returns false.
C33_NoRetryCeiling ==
    [][/\ (Returns("validate_connection") /\ Top.force /\ Top.pc # "start") =>
            /\ ret'.bool
            /\ \/ Top.pc = "status" /\ ret.status = "UPDATED"
               \/ Top.pc = "result" /\ ret.bool
       /\ (Running("validate_connection", "status") /\ Top.force
               /\ ret.status # "UPDATED" /\ Len(stack') # Len(stack)) =>
            Calls("validate_connection", "reconnect", EstablishFrame(Top.serial))
       /\ Leaves("validate_connection", "revalidate") =>
            Calls("validate_connection", "result", ValidateFrame(Top.serial, Top.force))]_vars

\* C33 witness: MaxDepth forced validations are nested, each having failed
\* its test and run the reconnection, and the innermost is to validate
\* again.
C33_Witness ==
    /\ Running("validate_connection", "revalidate")
    /\ Depth = MaxDepth
    /\ \A i \in DOMAIN stack : stack[i].fn = "validate_connection" /\ stack[i].force


\* C34: a statusOf that has ended, whatever callbacks ran during it, has
\* returned one of the four statuses and raised nothing.
C34_StatusNeverRaises ==
    (stack = <<>> /\ done.fn = "connection_status_for_device") =>
        /\ done.outcome = "returned"
        /\ ret.status \in ConnectionInfoStatus


\* C35: the step of the port fix that stores the fixed port changes the
\* managed record only: the registry's mappings are what they were, so the
\* online record of the serial keeps the port discovery reported.
C35_PortFixLeavesRegistry ==
    [][Leaves("fix_adb_port", "store") =>
        /\ online' = online
        /\ offline' = offline]_vars


\* C36: the command a device action issues after its validation succeeded
\* is addressed to the communication address of the serial's managed record
\* at that moment.
C36_ActionTargetsManagedAddress ==
    [][(Running("click_by_coordinates", "validated") /\ Len(log') > Len(log)) =>
        Last(log').arg = build_comm_uri(Top.serial)]_vars

\* C37: after any sequence of start() and stop_pair_listener() calls on an
\* AdbPairing, the old Zeroconf instances it retains are never more than
\* its max_zeroconf_instances.
C37_RetainedWithinMaximum ==
    Len(pairing.zombies) <= pairing.max_zc_instances

\* C38: after every call made on both services, the AdbPairing and the
\* discovery report the same started state.
C38_SameStartedState ==
    (stack = <<>> /\ done.fn \in {"AdbPairing.start", "stop_pair_listener"})
        => pairing.started = discovery.started

\* C39: for every set of online candidates, the empty one too, and every
\* outcome of each adb pair, AsyncAdbPairing.pair_devices returns the
\* boolean AdbPairing.pair_devices returns for the same outcomes.
C39_AsyncAggregatesAsSync ==
    [][Leaves("async_pair_devices", "end") =>
        ret'.bool = pair_devices_result(Top.all_ops)]_vars

\* Where the registry holds a serial, and the record bound to it there.
Entry(reg, key) ==
    [placement |-> Placement(reg, key),
     online |-> IF key \in DOMAIN reg.online THEN reg.online[key] ELSE NoInfo,
     offline |-> IF key \in DOMAIN reg.offline THEN reg.offline[key] ELSE NoInfo]

\* What the last call for a serial leaves as its entry.
Written(op, data) ==
    IF op = "to_offline_service"
    THEN [placement |-> "offline", online |-> NoInfo, offline |-> data]
    ELSE [placement |-> "online", online |-> data, offline |-> NoInfo]

\* C40: the registry is last-writer-wins per serial: no step of a call
\* changes the entry of a serial other than the call's own, between calls
\* no entry changes, and the call that completes leaves its serial in the
\* mapping of its kind (online for add and update, offline for
\* moveOffline) bound to its record, whatever the entry was before.
C40_LastWriterWins ==
    [][/\ \A key \in Serials \ {lst.key} :
              Entry(Registry', key) = Entry(Registry, key)
       /\ (lst.pc = "set" /\ lst'.pc = "release") =>
              Entry(Registry', lst.key) = Written(lst.op, lst.data)]_vars

\* A call has completed for a serial whose entry another kind of call had
\* written with another record, while the registry holds another serial.
C40_Witness ==
    /\ lst.pc = "release"
    /\ ~lst.same
    /\ lst.prev \in {"online", "offline"}
    /\ lst.prev # Written(lst.op, lst.data).placement
    /\ \E key \in Serials \ {lst.key} : Placement(Registry, key) # "unseen"
====
